---- MODULE Spec2Model ----
(***************************************************************************)
(* Model of the AARC -> RC converter (src/src/converter.cc, the relevant   *)
(* part of the builder in src/src/geometry.cc) and of the task server      *)
(* (src/server/src/main.cc).                                               *)
(*                                                                         *)
(* The specifications share the variables:                                 *)
(*   Spec          convert_to_rc: builder output, seeding, BFS, dedup      *)
(*   SpecCancel    Spec with the dispatcher storing the cancellation flag  *)
(*   SpecDedup     remove_duplicate_lines on arbitrary line sets           *)
(*   SpecServer    the worker, the converter thread, /get and the cleanup  *)
(*   SpecRetention SpecServer with one task over the retention period      *)
(*   SpecWorker    the /create handlers, the worker, the converter threads *)
(*   SpecOpt       add_lines with the segmentation optimizer               *)
(*   SpecGrid      convert_to_rc on grids within the auto-group distance   *)
(*   SpecSeed      convert_to_rc up to the end of the seeding loop         *)
(*   SpecShortcut  get_lines with and without the simple-line shortcut     *)
(*   SpecBuilder   the config parsing of Map::Map                          *)
(*   SpecLines     Map::Map on one line: loading, auxiliary points, loops  *)
(*   SpecCross     convert_to_rc on lines that cross, overlap or close     *)
(*   SpecDescent   SpecOpt restricted to the runs that reach the descent   *)
(*   SpecMask      the lines mask of the optimizer on a chain of lines     *)
(*   SpecLinks     convert_to_rc on grids with pointLinks of type Group    *)
(*   SpecLive      SpecWorker under fair scheduling of the worker          *)
(* Each specification keeps the variables of the others at their idle      *)
(* values.                                                                 *)
(***************************************************************************)
EXTENDS Integers, Sequences, FiniteSets, TLC

VARIABLES
    \* ---- converter::get_lines / convert_to_rc
    geomap,           \* geometry::Map after the builder (points, lines, config, groups)
    segmented_lines,  \* the segmented_lines argument of get_lines
    q,                \* std::queue<RouteEntry> of get_lines
    lines,            \* std::unordered_map<int, rc::Line> lines (get_lines / remove_duplicate_lines)
    routes,           \* history: for every emitted line id, the points and line ids it was built from
    pc,               \* position of the conversion
    cancel_flag,      \* the std::atomic<bool> shared with the dispatcher
    stations,         \* ids of rcmap.stations
    input,            \* the descriptor pair the map was built from
    \* ---- remove_duplicate_lines harness
    dd_pc,            \* "idle" | "input" | "once" | "twice"
    dd_in,            \* the line set handed to the first pass
    dd_alt,           \* survivors of a run over the same input in ascending-id order
    dd_first,         \* survivors of the first pass, kept when a second pass runs
    dd_order,         \* whether the last pass visited the container in ascending id order
    \* ---- task server
    tasks,            \* keys of the std::unordered_map tasks (guarded by tasks_mutex)
    task,             \* the Task objects by key: status, result, error_message, completed_at, cancel_flag
    task_queue,       \* std::queue task_queue
    worker,           \* position of worker_thread_func / process_task and the task it holds
    conv,             \* per task, the converter thread and its promise
    get,              \* position of a /get handler, the status it has read and its response
    now,              \* system_clock::now() in hours
    term_at,          \* history: the hour at which a task's status became terminal
    extent,           \* how much of the server's life is followed: /create requests and hours
    enqueued,         \* history: the keys in the order they were pushed on task_queue
    \* ---- add_lines with optimize_segmentation
    opt               \* add_lines: lines_mask, seg_groups, current_count, improved, iteration;
                      \* in SpecShortcut the lines of the run without the shortcut

convVars == <<geomap, segmented_lines, q, lines, routes, pc, cancel_flag, stations, input>>
ddVars == <<dd_pc, dd_in, dd_alt, dd_first, dd_order>>
srvVars == <<tasks, task, task_queue, worker, conv, get, now, term_at, extent, enqueued>>
vars == <<geomap, segmented_lines, q, lines, routes, pc, cancel_flag, stations, input,
          dd_pc, dd_in, dd_alt, dd_first, dd_order,
          tasks, task, task_queue, worker, conv, get, now, term_at, extent, enqueued, opt>>

(***************************************************************************)
(* Bounds                                                                  *)
(***************************************************************************)
\* remove_duplicate_lines harness: number of input lines and longest station list
NumLines == 3
MaxStas == 2
\* station ids used by the harness
DedupStations == {1, 2}
\* conversion inputs: points of the longest straight line, largest max_length and
\* segment_length given in the config descriptor, longest track list explored
MaxLinePoints == 4
MaxCfgLength == 2
MaxCfgSeg == 3
MaxTracks == 7

(***************************************************************************)
(* Generic helpers                                                         *)
(***************************************************************************)
Reverse(s) == [i \in 1..Len(s) |-> s[Len(s) + 1 - i]]

RemoveAt(s, i) == [j \in 1..(Len(s) - 1) |-> IF j < i THEN s[j] ELSE s[j + 1]]

SeqsUpTo(S, n) == UNION {[1..k -> S] : k \in 0..n}

\* every iteration order an unordered container holding the keys S can have
RECURSIVE Orders(_)
Orders(S) ==
    IF S = {} THEN {<<>>}
    ELSE UNION {{<<x>> \o o : o \in Orders(S \ {x})} : x \in S}

RECURSIVE AscendingOrder(_)
AscendingOrder(S) ==
    IF S = {} THEN <<>>
    ELSE LET m == CHOOSE x \in S : \A y \in S : x <= y
         IN <<m>> \o AscendingOrder(S \ {m})

Min2(a, b) == IF a < b THEN a ELSE b

(***************************************************************************)
(* remove_duplicate_lines (converter.cc:71-111)                            *)
(***************************************************************************)
\* the is_subroute lambda: a is a strictly shorter, non-empty contiguous run of b
is_subroute(a, b) ==
    IF Len(a) = 0 \/ Len(a) >= Len(b) THEN FALSE
    ELSE \E i \in 0..(Len(b) - Len(a)) : \A k \in 1..Len(a) : a[k] = b[i + k]

\* the inner-loop body without the id tie-break of identical lines
ErasesIgnoringIds(idA, A, idB, B) ==
    LET revB == Reverse(B) IN
    IF Len(A) = Len(B) /\ (A = B \/ A = revB) THEN TRUE
    ELSE is_subroute(A, B) \/ is_subroute(A, revB)

\* body of the inner loop: does comparing line A (at `it`) with line B (at `it2`)
\* erase A?  A and B are station lists, idA and idB the map keys.
Erases(idA, A, idB, B) ==
    LET revB == Reverse(B) IN
    IF Len(A) = Len(B) /\ (A = B \/ A = revB) THEN idA > idB
    ELSE is_subroute(A, B) \/ is_subroute(A, revB)

\* an inner loop that compares only with the lines after `it`
ScanRangeAfter(ord, i) == (i + 1)..Len(ord)

\* positions it2 takes in the inner loop: the whole container except `it`
ScanRange(ord, i) == (1..Len(ord)) \ {i}

\* the outer loop from position i of the iteration order ord over the map ls;
\* erase keeps the order of the remaining elements and returns the next one
RECURSIVE DedupFrom(_, _, _)
DedupFrom(ls, ord, i) ==
    IF i > Len(ord) THEN ls
    ELSE LET a == ord[i]
             erased == \E j \in ScanRange(ord, i) :
                          Erases(a, ls[a].station_ids, ord[j], ls[ord[j]].station_ids)
         IN IF erased
            THEN DedupFrom([k \in (DOMAIN ls) \ {a} |-> ls[k]], RemoveAt(ord, i), i)
            ELSE DedupFrom(ls, ord, i + 1)

remove_duplicate_lines(ls, ord) == DedupFrom(ls, ord, 1)

(***************************************************************************)
(* Builder: geometry::Map::Map (geometry.cc:625-1113)                      *)
(*                                                                         *)
(* Inputs are restricted to descriptors whose points all have              *)
(* dir = Orthogonal and whose consecutive points are axis-aligned or       *)
(* coincident (WellPosed), with no parent, no pointLinks and width-derived *)
(* size 1.0: formalize_segment then returns no intermediate position and   *)
(* ill = 0 for every segment, and add_auxiliary_points only rewrites the   *)
(* point list.  unordered_map iteration is taken in ascending id order.    *)
(***************************************************************************)
\* Config defaults (geometry.h:80-85)
DefaultMaxLength == 128
DefaultMaxRcSteps == 16
DefaultAutoGroupDistance == 25
DefaultMaxIterations == 4

\* `if (v > 0) config.x = v` (geometry.cc:807-824); 0 stands for an absent key
ConfigOverride(json_value, default) == IF json_value > 0 THEN json_value ELSE default

\* the listed pairs in the listed direction only
ListedPairs(pairs, line_ids) ==
    {r \in pairs : r[1] \in line_ids /\ r[2] \in line_ids}

\* connect_lines / merge_lines with forced = true (geometry.cc:629-639, 853-905):
\* every listed pair whose lines exist goes in, in both directions
SymmetricPairs(pairs, line_ids) ==
    UNION {{<<p[1], p[2]>>, <<p[2], p[1]>>} : p \in {r \in pairs : r[1] \in line_ids /\ r[2] \in line_ids}}

\* segmented_lines parsing (geometry.cc:907-997).  Entry k is
\* [lines |-> set of line ids, segment_length |-> n]; n <= 0 stands for a bare
\* id, an array, or an object without a positive segment_length, all of which
\* store -k.  Later entries overwrite earlier ones.
RECURSIVE ParseSegmented(_, _, _, _)
ParseSegmented(entries, k, line_ids, acc) ==
    IF k > Len(entries) THEN acc
    ELSE LET e == entries[k]
             seg_len == IF e.segment_length > 0 THEN e.segment_length ELSE -k
             hit == e.lines \cap line_ids
         IN ParseSegmented(entries, k + 1, line_ids,
                [l \in (DOMAIN acc) \cup hit |-> IF l \in hit THEN seg_len ELSE acc[l]])

\* l.is_loop at load time (geometry.cc:734)
IsLoopByEndpoints(pts) == Len(pts) >= 2 /\ pts[1] = pts[Len(pts)]

\* number of FormalSegments add_auxiliary_points collects for a line
\* (geometry.cc:476-535): one per consecutive pair with both points present,
\* plus the two margin segments of a ring of three or more points
SegmentCount(points, pts, ring) ==
    LET n == Len(pts)
        normal == Cardinality({i \in 1..(n - 1) : pts[i] \in DOMAIN points /\ pts[i + 1] \in DOMAIN points})
        head == IF ring /\ n >= 3 /\ pts[n - 1] \in DOMAIN points /\ pts[1] \in DOMAIN points THEN 1 ELSE 0
        tail == IF ring /\ n >= 3 /\ pts[n] \in DOMAIN points /\ pts[2] \in DOMAIN points THEN 1 ELSE 0
    IN head + normal + tail

\* the point list add_auxiliary_points leaves in a line when no segment gets an
\* intermediate position (geometry.cc:466-586)
AuxPointIds(points, pts, ring) ==
    IF Len(pts) < 2 THEN pts
    ELSE LET total == SegmentCount(points, pts, ring)
             kept == IF ring /\ total > 2 THEN total - 2 ELSE total
             body == <<pts[1]>> \o [i \in 1..Min2(kept, Len(pts) - 1) |-> pts[i + 1]]
         IN IF total = 0 THEN pts
            ELSE IF ~ring /\ body[Len(body)] # pts[Len(pts)]
                 THEN Append(body, pts[Len(pts)])
                 ELSE body

\* a join that only pairs two ungrouped stations and never extends a group
JoinStationsUngroupedOnly(p2g, s1, s2) ==
    IF s1 = s2 \/ s1 \in DOMAIN p2g \/ s2 \in DOMAIN p2g THEN p2g
    ELSE [p \in (DOMAIN p2g) \cup {s1, s2} |-> IF p \in {s1, s2} THEN s1 ELSE p2g[p]]

\* join_stations (geometry.cc:641-676) on point_to_group, a function from the
\* grouped point ids to their group id
JoinStations(p2g, s1, s2) ==
    IF s1 = s2 THEN p2g
    ELSE IF s1 \in DOMAIN p2g /\ s2 \in DOMAIN p2g
         THEN IF p2g[s1] = p2g[s2] THEN p2g
              ELSE [p \in DOMAIN p2g |-> IF p2g[p] = p2g[s2] THEN p2g[s1] ELSE p2g[p]]
         ELSE IF s1 \in DOMAIN p2g
              THEN [p \in (DOMAIN p2g) \cup {s2} |-> IF p = s2 THEN p2g[s1] ELSE p2g[p]]
              ELSE IF s2 \in DOMAIN p2g
                   THEN [p \in (DOMAIN p2g) \cup {s1} |-> IF p = s1 THEN p2g[s2] ELSE p2g[p]]
                   ELSE [p \in (DOMAIN p2g) \cup {s1, s2} |-> IF p \in {s1, s2} THEN s1 ELSE p2g[p]]

\* squared distance test of the auto-group step (geometry.cc:1031-1033) for
\* integer coordinates and size 1.0: length <= 25 * 1 + 1e-3
WithinGroupDistance(p1, p2) ==
    LET dx == p1.pos[1] - p2.pos[1]
        dy == p1.pos[2] - p2.pos[2]
    IN dx * dx + dy * dy <= DefaultAutoGroupDistance * DefaultAutoGroupDistance

\* the auto-group double loop (geometry.cc:1025-1037) over `pairs`, the
\* sequence of station pairs (id1 < id2) in iteration order
RECURSIVE AutoGroup(_, _, _, _)
AutoGroup(points, pairs, k, p2g) ==
    IF k > Len(pairs) THEN p2g
    ELSE LET a == pairs[k][1]
             b == pairs[k][2]
         IN AutoGroup(points, pairs, k + 1,
                IF WithinGroupDistance(points[a], points[b]) THEN JoinStations(p2g, a, b) ELSE p2g)

\* station pairs id1 < id2, id1 ascending then id2 ascending
StationPairs(points) ==
    LET ids == AscendingOrder({p \in DOMAIN points : points[p].type = "Station"})
        n == Len(ids)
        idx == {<<i, j>> \in (1..n) \X (1..n) : i < j}
        rank(ij) == (ij[1] - 1) * n + ij[2]
        RECURSIVE Sorted(_)
        Sorted(S) == IF S = {} THEN <<>>
                     ELSE LET m == CHOOSE x \in S : \A y \in S : rank(x) <= rank(y)
                          IN <<<<ids[m[1]], ids[m[2]]>>>> \o Sorted(S \ {m})
    IN Sorted(idx)

\* a clamp that lifts a short entry to max_rc_steps itself
ClampToMaxRcSteps(seg, max_rc_steps) ==
    [l \in DOMAIN seg |-> IF seg[l] >= 0 /\ seg[l] < max_rc_steps THEN max_rc_steps ELSE seg[l]]

\* the segmentation clamp (geometry.cc:1050-1055)
ClampSegmented(seg, max_rc_steps) ==
    [l \in DOMAIN seg |-> IF seg[l] >= 0 /\ seg[l] <= max_rc_steps THEN max_rc_steps + 1 ELSE seg[l]]

\* the period scan of the loop refinement (geometry.cc:1060-1068), i 0-based
RECURSIVE PeriodScan(_, _, _)
PeriodScan(pts, i, period) ==
    IF i >= Len(pts) THEN period
    ELSE IF period = 0 /\ pts[i + 1] = pts[1] THEN PeriodScan(pts, i + 1, i)
    ELSE IF period # 0 /\ pts[i + 1] # pts[(i % period) + 1] THEN 0
    ELSE PeriodScan(pts, i + 1, period)

\* loop refinement of one line (geometry.cc:1058-1073)
RefineLoop(line) ==
    IF line.is_loop THEN line
    ELSE LET period == PeriodScan(line.point_ids, 1, 0)
         IN IF period # 0
            THEN [line EXCEPT !.is_loop = TRUE, !.point_ids = SubSeq(line.point_ids, 1, period + 1)]
            ELSE line

\* the simple-line flag (geometry.cc:1077-1112)
IsSimple(line_id, line, points, config) ==
    /\ line_id \notin DOMAIN config.segmented_lines
    /\ ~\E p \in config.friend_lines : p[1] = line_id \/ p[2] = line_id
    /\ ~\E p \in config.merged_lines : p[1] = line_id \/ p[2] = line_id
    /\ LET limit == IF line.is_loop THEN Len(line.point_ids) - 1 ELSE Len(line.point_ids)
       IN ~\E i, j \in 1..limit :
             /\ i < j
             /\ line.point_ids[i] = line.point_ids[j]
             /\ line.point_ids[i] \in DOMAIN points
             /\ points[line.point_ids[i]].type = "Station"

\* Map::Map: aarc = [points, lines], config_json = [max_length, max_rc_steps,
\* merge_consecutive_duplicates, optimize_segmentation, max_iterations,
\* friend_lines, merged_lines, segmented_lines]
BuildMap(aarc, config_json) ==
    LET line_ids == DOMAIN aarc.lines
        max_rc_steps == ConfigOverride(config_json.max_rc_steps, DefaultMaxRcSteps)
        loaded == [l \in line_ids |-> [point_ids |-> aarc.lines[l],
                                       is_loop |-> IsLoopByEndpoints(aarc.lines[l])]]
        config == [max_length |-> ConfigOverride(config_json.max_length, DefaultMaxLength),
                   max_rc_steps |-> max_rc_steps,
                   merge_consecutive_duplicates |-> config_json.merge_consecutive_duplicates,
                   optimize_segmentation |-> config_json.optimize_segmentation,
                   max_iterations |-> ConfigOverride(config_json.max_iterations, DefaultMaxIterations),
                   friend_lines |-> SymmetricPairs(config_json.friend_lines, line_ids),
                   merged_lines |-> SymmetricPairs(config_json.merged_lines, line_ids),
                   segmented_lines |-> ClampSegmented(
                       ParseSegmented(config_json.segmented_lines, 1, line_ids, <<>>), max_rc_steps)]
        with_aux == [l \in line_ids |->
                        [loaded[l] EXCEPT !.point_ids = AuxPointIds(aarc.points, loaded[l].point_ids, loaded[l].is_loop)]]
        refined == [l \in line_ids |-> RefineLoop(with_aux[l])]
    IN [points |-> aarc.points,
        lines |-> [l \in line_ids |->
                     [point_ids |-> refined[l].point_ids,
                      is_loop |-> refined[l].is_loop,
                      is_simple |-> IsSimple(l, refined[l], aarc.points, config)]],
        point_to_group |-> AutoGroup(aarc.points, StationPairs(aarc.points), 1, <<>>),
        config |-> config]

(***************************************************************************)
(* converter.cc: tracks, route entries, get_lines                          *)
(***************************************************************************)
\* RouteEntry::remaining_count's initial value (converter.cc:50)
InitialRemainingCount == 65535

IsStation(gm, pid) == pid \in DOMAIN gm.points /\ gm.points[pid].type = "Station"

\* Track aggregate (converter.cc:31-42); index_in_line is 0-based as in the code
Track(pid, lid, idx, fwd, is_end, next_index) ==
    [point_id |-> pid, line_id |-> lid, index_in_line |-> idx,
     forward |-> fwd, is_end |-> is_end, next_index |-> next_index]

get_next_index(t) ==
    IF t.next_index # -1 THEN t.next_index
    ELSE IF t.forward THEN t.index_in_line + 1 ELSE t.index_in_line - 1

\* line.point_ids[i] for a 0-based i
PointAt(gm, lid, i) == gm.lines[lid].point_ids[i + 1]

\* the tracks the construction loop pushes for position i of a line, in the
\* order of the six ifs (converter.cc:129-180)
TracksAtIndex(gm, lid, i) ==
    LET line == gm.lines[lid]
        n == Len(line.point_ids)
        pid == line.point_ids[i + 1]
    IN (IF i + 1 < n THEN <<Track(pid, lid, i, TRUE, FALSE, -1)>> ELSE <<>>)
       \o (IF i > 0 THEN <<Track(pid, lid, i, FALSE, FALSE, -1)>> ELSE <<>>)
       \o (IF i = 0 /\ line.is_loop THEN <<Track(pid, lid, i, FALSE, FALSE, n - 1)>> ELSE <<>>)
       \o (IF i + 1 = n /\ line.is_loop THEN <<Track(pid, lid, i, TRUE, FALSE, 0)>> ELSE <<>>)
       \o (IF i = 0 /\ ~line.is_loop THEN <<Track(pid, lid, i, FALSE, TRUE, -1)>> ELSE <<>>)
       \o (IF i + 1 = n /\ ~line.is_loop THEN <<Track(pid, lid, i, TRUE, TRUE, -1)>> ELSE <<>>)

RECURSIVE LineTracksAt(_, _, _, _)
LineTracksAt(gm, lid, i, pid) ==
    IF i >= Len(gm.lines[lid].point_ids) THEN <<>>
    ELSE (IF PointAt(gm, lid, i) = pid THEN TracksAtIndex(gm, lid, i) ELSE <<>>)
         \o LineTracksAt(gm, lid, i + 1, pid)

RECURSIVE TracksOver(_, _, _, _)
TracksOver(gm, line_order, k, pid) ==
    IF k > Len(line_order) THEN <<>>
    ELSE LineTracksAt(gm, line_order[k], 0, pid) \o TracksOver(gm, line_order, k + 1, pid)

\* points[pid].tracks after the pre-processing loops (converter.cc:121-182),
\* for a pid that is in points
PointTracks(gm, pid) == TracksOver(gm, AscendingOrder(DOMAIN gm.lines), 1, pid)

\* a turn test that refuses the right angle
can_move_through_acute(gm, p1, p2, p3) ==
    IF p1 \notin DOMAIN gm.points \/ p2 \notin DOMAIN gm.points \/ p3 \notin DOMAIN gm.points
    THEN FALSE
    ELSE LET a == gm.points[p1].pos
             b == gm.points[p2].pos
             c == gm.points[p3].pos
         IN (b[1] - a[1]) * (c[1] - b[1]) + (b[2] - a[2]) * (c[2] - b[2]) > 0

\* Map::can_move_through (geometry.cc:589-597)
can_move_through(gm, p1, p2, p3) ==
    IF p1 \notin DOMAIN gm.points \/ p2 \notin DOMAIN gm.points \/ p3 \notin DOMAIN gm.points
    THEN FALSE
    ELSE LET a == gm.points[p1].pos
             b == gm.points[p2].pos
             c == gm.points[p3].pos
         IN (b[1] - a[1]) * (c[1] - b[1]) + (b[2] - a[2]) * (c[2] - b[2]) >= 0

\* does next_tracks dereference a point that is not in points?
\* points.at(next_pid) throws std::out_of_range (converter.cc:205)
NextTracksThrows(gm, track) ==
    /\ ~track.is_end
    /\ PointAt(gm, track.line_id, get_next_index(track)) \notin DOMAIN gm.points

\* the test of the loop body of next_tracks for one parked track t (converter.cc:206-223)
Admits(gm, track, next_pid, t) ==
    IF t.line_id = track.line_id /\ t.index_in_line = get_next_index(track)
    THEN t.forward = track.forward \/ t.is_end
    ELSE /\ ~t.is_end
         /\ \/ <<track.line_id, t.line_id>> \in gm.config.merged_lines
            \/ /\ <<track.line_id, t.line_id>> \in gm.config.friend_lines
               /\ can_move_through(gm, track.point_id, next_pid,
                                   PointAt(gm, t.line_id, get_next_index(t)))

\* next_tracks (converter.cc:201-232), for a track whose next point exists
next_tracks(gm, track) ==
    IF track.is_end THEN <<>>
    ELSE LET next_pid == PointAt(gm, track.line_id, get_next_index(track))
             result == SelectSeq(PointTracks(gm, next_pid), LAMBDA t : Admits(gm, track, next_pid, t))
         IN IF Len(result) > 1 THEN SelectSeq(result, LAMBDA t : ~t.is_end) ELSE result

\* RouteEntry::push_back (converter.cc:52-64)
PushBack(entry, track, gm, seg) ==
    LET dec == IF IsStation(gm, track.point_id)
               THEN entry.remaining_count - 1 ELSE entry.remaining_count
        cap == IF track.line_id \in DOMAIN seg THEN seg[track.line_id] ELSE gm.config.max_length
    IN [tracks |-> Append(entry.tracks, track),
        remaining_count |-> Min2(dec, cap)]

EmptyEntry == [tracks |-> <<>>, remaining_count |-> InitialRemainingCount]

\* RouteEntry::full (converter.cc:66-68)
full(entry) == entry.remaining_count <= 0

\* the id a Station point contributes to an RC line (converter.cc:193, 249)
StationIdOf(gm, pid) == IF pid \in DOMAIN gm.point_to_group THEN gm.point_to_group[pid] ELSE pid

\* the station list built from a list of point ids (converter.cc:189-197, 245-253)
RECURSIVE StationIds(_, _, _, _)
StationIds(gm, pids, k, acc) ==
    IF k > Len(pids) THEN acc
    ELSE LET pid == pids[k]
             id == StationIdOf(gm, pid)
         IN IF ~IsStation(gm, pid) THEN StationIds(gm, pids, k + 1, acc)
            ELSE IF ~gm.config.merge_consecutive_duplicates \/ Len(acc) = 0 \/ acc[Len(acc)] # id
                 THEN StationIds(gm, pids, k + 1, Append(acc, id))
                 ELSE StationIds(gm, pids, k + 1, acc)

\* the state get_lines works on: st = [q, lines, routes]
\* add_line (converter.cc:184-199); routes records the tracks' points and lines
add_line(gm, st, tracks) ==
    IF Len(tracks) < 2 THEN st
    ELSE LET id == Cardinality(DOMAIN st.lines) + 1
             pids == [k \in 1..Len(tracks) |-> tracks[k].point_id]
             line == [id |-> id, station_ids |-> StationIds(gm, pids, 1, <<>>), is_loop |-> FALSE]
         IN [st EXCEPT !.lines = [k \in (DOMAIN st.lines) \cup {id} |-> IF k = id THEN line ELSE st.lines[k]],
                       !.routes = [k \in (DOMAIN st.routes) \cup {id} |->
                                      IF k = id
                                      THEN [kind |-> "bfs", point_ids |-> pids,
                                            line_ids |-> [j \in 1..Len(tracks) |-> tracks[j].line_id]]
                                      ELSE st.routes[k]]]

\* a shortcut that emits the line the way add_line emits a route: never a loop
AddSimpleLineAsRoute(gm, st, lid) ==
    add_line(gm, st, [k \in 1..Len(gm.lines[lid].point_ids) |->
                         [point_id |-> gm.lines[lid].point_ids[k], line_id |-> lid]])

\* the simple-line shortcut (converter.cc:240-256)
AddSimpleLine(gm, st, lid) ==
    LET line == gm.lines[lid]
        id == Cardinality(DOMAIN st.lines) + 1
        simple_line == [id |-> id, station_ids |-> StationIds(gm, line.point_ids, 1, <<>>),
                        is_loop |-> line.is_loop]
    IN [st EXCEPT !.lines = [k \in (DOMAIN st.lines) \cup {id} |-> IF k = id THEN simple_line ELSE st.lines[k]],
                  !.routes = [k \in (DOMAIN st.routes) \cup {id} |->
                                 IF k = id
                                 THEN [kind |-> "simple", point_ids |-> line.point_ids,
                                       line_ids |-> [j \in 1..Len(line.point_ids) |-> lid]]
                                 ELSE st.routes[k]]]

\* one seed entry (converter.cc:258-268, 274-280)
SeedEntry(gm, seg, lid, i, fwd) ==
    PushBack(EmptyEntry, Track(PointAt(gm, lid, i), lid, i, fwd, FALSE, -1), gm, seg)

\* the interior seeds of a segmented line (converter.cc:272-281), from index i
RECURSIVE InteriorSeeds(_, _, _, _, _)
InteriorSeeds(gm, seg, lid, interval, i) ==
    IF i + 1 >= Len(gm.lines[lid].point_ids) THEN <<>>
    ELSE <<SeedEntry(gm, seg, lid, i, TRUE), SeedEntry(gm, seg, lid, i, FALSE)>>
         \o InteriorSeeds(gm, seg, lid, interval, i + interval)

\* body of the seeding loop for one line (converter.cc:237-281)
SeedLine(gm, seg, mask, st, lid) ==
    LET line == gm.lines[lid]
        n == Len(line.point_ids)
    IN IF mask # {} /\ lid \notin mask THEN st
       ELSE IF n < 2 THEN st
       ELSE IF line.is_simple THEN AddSimpleLine(gm, st, lid)
       ELSE LET ends == <<SeedEntry(gm, seg, lid, 0, TRUE), SeedEntry(gm, seg, lid, n - 1, FALSE)>>
                inner == IF lid \in DOMAIN seg
                         THEN InteriorSeeds(gm, seg, lid, seg[lid] - gm.config.max_rc_steps,
                                            seg[lid] - gm.config.max_rc_steps)
                         ELSE <<>>
            IN [st EXCEPT !.q = st.q \o ends \o inner]

RECURSIVE SeedAll(_, _, _, _, _, _)
SeedAll(gm, seg, mask, st, line_order, k) ==
    IF k > Len(line_order) THEN st
    ELSE SeedAll(gm, seg, mask, SeedLine(gm, seg, mask, st, line_order[k]), line_order, k + 1)

\* fan-out of one BFS iteration (converter.cc:294-298)
RECURSIVE FanOut(_, _, _, _, _)
FanOut(gm, seg, entry, nexts, k) ==
    IF k > Len(nexts) THEN <<>>
    ELSE <<PushBack(entry, nexts[k], gm, seg)>> \o FanOut(gm, seg, entry, nexts, k + 1)

\* one iteration of the BFS loop (converter.cc:285-299) that does not throw
BFSIteration(gm, seg, st) ==
    LET entry == Head(st.q)
        popped == [st EXCEPT !.q = Tail(st.q)]
        last_track == entry.tracks[Len(entry.tracks)]
        nexts == next_tracks(gm, last_track)
    IN IF Len(nexts) = 0 \/ full(entry)
       THEN add_line(gm, popped, entry.tracks)
       ELSE [popped EXCEPT !.q = popped.q \o FanOut(gm, seg, entry, nexts, 1)]

\* add_lines without the optimizer (converter.cc:307-316): non-positive entries
\* become max_rc_steps << 1
DefaultSegmentation(gm) ==
    [l \in DOMAIN gm.config.segmented_lines |->
        IF gm.config.segmented_lines[l] <= 0 THEN 2 * gm.config.max_rc_steps
        ELSE gm.config.segmented_lines[l]]

\* the second loop of add_stations alone
add_stations_ungrouped(gm) ==
    {p \in DOMAIN gm.points : gm.points[p].type = "Station" /\ p \notin DOMAIN gm.point_to_group}

\* add_stations (converter.cc:7-29): the ids of rcmap.stations
add_stations(gm) ==
    {gm.point_to_group[p] : p \in DOMAIN gm.point_to_group}
    \cup {p \in DOMAIN gm.points : gm.points[p].type = "Station" /\ p \notin DOMAIN gm.point_to_group}

(***************************************************************************)
(* Conversion inputs                                                       *)
(***************************************************************************)
\* a point id no descriptor defines
MissingPoint == 99

\* positions: ids 1..10 on the x axis, 11 and 12 above and below point 2,
\* 13 above point 1; 100 units apart, so the auto-group step joins nothing
PosOf(p) ==
    CASE p = 11 -> <<100, 100>>
      [] p = 12 -> <<100, -100>>
      [] p = 13 -> <<0, 100>>
      [] OTHER -> <<100 * (p - 1), 0>>

\* line sets: a straight line of 2..MaxLinePoints points, two lines crossing at
\* point 2, a square loop, a loop of length 2, a line through a missing point
LineShapes ==
    {<<[i \in 1..k |-> i]>> : k \in 2..MaxLinePoints}
    \cup {<<<<1, 2, 3>>, <<11, 2, 12>>>>,
          <<<<1, 2, 11, 13, 1>>>>,
          <<<<1, 1>>>>,
          <<<<1, MissingPoint, 2>>>>,
          <<<<1, 2, MissingPoint, 3>>>>}

PointsOf(shape) == UNION {{shape[l][i] : i \in 1..Len(shape[l])} : l \in 1..Len(shape)} \ {MissingPoint}

\* consecutive existing points are axis-aligned or coincident
WellPosed(aarc) ==
    \A l \in DOMAIN aarc.lines : \A i \in 1..(Len(aarc.lines[l]) - 1) :
        LET a == aarc.lines[l][i]
            b == aarc.lines[l][i + 1]
        IN (a \in DOMAIN aarc.points /\ b \in DOMAIN aarc.points)
           => (aarc.points[a].pos[1] = aarc.points[b].pos[1] \/ aarc.points[a].pos[2] = aarc.points[b].pos[2])

AarcInputs ==
    {a \in UNION {{[points |-> [p \in PointsOf(shape) |-> [pos |-> PosOf(p), type |-> ty[p]]],
                    lines |-> shape] : ty \in [PointsOf(shape) -> {"Station", "Node"}]}
                  : shape \in LineShapes}
       : WellPosed(a)}

\* config descriptors for a map with n lines: one optional pair (1, n) of
\* friend or merged lines, one optional segmentation entry for line 1
ConfigInputs(n) ==
    {[max_length |-> ml, max_rc_steps |-> 1, merge_consecutive_duplicates |-> md,
      optimize_segmentation |-> FALSE, max_iterations |-> 0,
      friend_lines |-> IF rel = "friend" THEN {<<1, n>>} ELSE {},
      merged_lines |-> IF rel = "merged" THEN {<<1, n>>} ELSE {},
      segmented_lines |-> sg]
     : ml \in 0..MaxCfgLength, md \in BOOLEAN, rel \in {"none", "friend", "merged"},
       sg \in {<<>>} \cup {<<[lines |-> {1}, segment_length |-> sl]>> : sl \in 0..MaxCfgSeg}}

EmptyMap == << >>

(***************************************************************************)
(* Spec: convert_to_rc (converter.cc:420-425)                              *)
(***************************************************************************)
ddIdle == dd_pc = "idle" /\ dd_in = EmptyMap /\ dd_alt = EmptyMap /\ dd_first = EmptyMap /\ dd_order = "none"

optIdle == opt = EmptyMap

srvIdle ==
    /\ tasks = {} /\ task = EmptyMap /\ task_queue = <<>> /\ worker = EmptyMap
    /\ conv = EmptyMap /\ get = EmptyMap /\ now = 0 /\ term_at = EmptyMap
    /\ extent = EmptyMap /\ enqueued = <<>>

Init ==
    /\ \E a \in AarcInputs : \E c \in ConfigInputs(Len(a.lines)) :
          /\ input = [aarc |-> a, config_json |-> c]
          /\ geomap = BuildMap(a, c)
    /\ segmented_lines = EmptyMap
    /\ q = <<>>
    /\ lines = EmptyMap
    /\ routes = EmptyMap
    /\ stations = {}
    /\ pc = "add_stations"
    /\ cancel_flag = FALSE
    /\ ddIdle
    /\ srvIdle
    /\ optIdle

\* add_stations (converter.cc:7-29)
AddStations ==
    /\ pc = "add_stations"
    /\ stations' = add_stations(geomap)
    /\ pc' = "seed"
    /\ UNCHANGED <<geomap, segmented_lines, q, lines, routes, cancel_flag, input, ddVars, srvVars, opt>>

\* add_lines up to the end of the seeding loop of get_lines (converter.cc:307-314, 118-282)
Seed ==
    /\ pc = "seed"
    /\ LET seg == DefaultSegmentation(geomap)
           st == SeedAll(geomap, seg, {}, [q |-> <<>>, lines |-> EmptyMap, routes |-> EmptyMap],
                         AscendingOrder(DOMAIN geomap.lines), 1)
       IN /\ segmented_lines' = seg
          /\ q' = st.q
          /\ lines' = st.lines
          /\ routes' = st.routes
    /\ pc' = "bfs"
    /\ UNCHANGED <<geomap, cancel_flag, stations, input, ddVars, srvVars, opt>>

LastTrack(entry) == entry.tracks[Len(entry.tracks)]

\* one iteration of the BFS loop (converter.cc:285-299)
BFSStep ==
    /\ pc = "bfs"
    /\ q # <<>>
    /\ ~NextTracksThrows(geomap, LastTrack(Head(q)))
    /\ Len(Head(q).tracks) < MaxTracks
    /\ LET st == BFSIteration(geomap, segmented_lines, [q |-> q, lines |-> lines, routes |-> routes])
       IN /\ q' = st.q
          /\ lines' = st.lines
          /\ routes' = st.routes
    /\ UNCHANGED <<geomap, segmented_lines, pc, cancel_flag, stations, input, ddVars, srvVars, opt>>

\* next_tracks throws std::out_of_range out of get_lines and convert_to_rc
BFSThrow ==
    /\ pc = "bfs"
    /\ q # <<>>
    /\ NextTracksThrows(geomap, LastTrack(Head(q)))
    /\ pc' = "failed"
    /\ UNCHANGED <<geomap, segmented_lines, q, lines, routes, cancel_flag, stations, input, ddVars, srvVars, opt>>

\* exploration bound of the model: a route of MaxTracks tracks is not followed further
BFSTruncate ==
    /\ pc = "bfs"
    /\ q # <<>>
    /\ ~NextTracksThrows(geomap, LastTrack(Head(q)))
    /\ Len(Head(q).tracks) >= MaxTracks
    /\ pc' = "truncated"
    /\ UNCHANGED <<geomap, segmented_lines, q, lines, routes, cancel_flag, stations, input, ddVars, srvVars, opt>>

\* remove_duplicate_lines and the return of get_lines into rcmap.lines (converter.cc:301-303, 314)
Dedup ==
    /\ pc = "bfs"
    /\ q = <<>>
    /\ lines' = remove_duplicate_lines(lines, AscendingOrder(DOMAIN lines))
    /\ pc' = "done"
    /\ UNCHANGED <<geomap, segmented_lines, q, routes, cancel_flag, stations, input, ddVars, srvVars, opt>>

Next == AddStations \/ Seed \/ BFSStep \/ BFSThrow \/ BFSTruncate \/ Dedup

Spec == Init /\ [][Next]_vars

(***************************************************************************)
(* SpecCancel: the conversion running while the dispatcher may store the   *)
(* cancellation flag (server main.cc:100)                                  *)
(***************************************************************************)
\* task->cancel_flag->store(true) in process_task, concurrent with the converter thread
StoreCancel ==
    /\ pc \in {"add_stations", "seed", "bfs"}
    /\ ~cancel_flag
    /\ cancel_flag' = TRUE
    /\ UNCHANGED <<geomap, segmented_lines, q, lines, routes, pc, stations, input, ddVars, srvVars, opt>>

\* default max_length and merge_consecutive_duplicates
InitCancel ==
    /\ Init
    /\ input.config_json.max_length = 0
    /\ input.config_json.merge_consecutive_duplicates

NextCancel == Next \/ StoreCancel

SpecCancel == InitCancel /\ [][NextCancel]_vars

(***************************************************************************)
(* Claims on the conversion                                                *)
(***************************************************************************)
\* number of Station-typed points among pids, repetitions counted
StationCount(gm, pids) == Cardinality({k \in 1..Len(pids) : IsStation(gm, pids[k])})

\* number of Station-typed points of a route taken from line lid
StationCountFrom(gm, route, lid) ==
    Cardinality({k \in 1..Len(route.point_ids) :
                    route.line_ids[k] = lid /\ IsStation(gm, route.point_ids[k])})

\* C1: every RC line in the result of get_lines (BFS route or simple line) is
\* built from at most max_length Station-typed points, counted on its
\* track/point list.
C1_MaxLengthCap ==
    pc = "done" =>
        \A id \in DOMAIN lines :
            StationCount(geomap, routes[id].point_ids) <= geomap.config.max_length

\* C2: for a line with a positive cap S in segmented_lines, every route emitted
\* by the BFS contains at most S Station-typed points taken from that line.
C2_SegmentCap ==
    pc = "done" =>
        \A l \in DOMAIN geomap.config.segmented_lines :
            geomap.config.segmented_lines[l] > 0 =>
                \A id \in DOMAIN lines :
                    routes[id].kind = "bfs" =>
                        StationCountFrom(geomap, routes[id], l) <= geomap.config.segmented_lines[l]

\* C3: every RC line in the result of convert_to_rc has at least 2 stations.
C3_AtLeastTwoStations ==
    pc = "done" => \A id \in DOMAIN lines : Len(lines[id].station_ids) >= 2

\* a line of the descriptor references a point id that is not in points
ReferencesMissingPoint ==
    \E l \in DOMAIN input.aarc.lines : \E i \in 1..Len(input.aarc.lines[l]) :
        input.aarc.lines[l][i] \notin DOMAIN input.aarc.points

\* C7: a conversion whose lines reference point ids missing from points does
\* not raise an error.
C7_MissingReferencesSkipped == ReferencesMissingPoint => pc # "failed"

\* C8: once the cancellation flag is set, the BFS iteration that follows stops
\* the conversion with a Cancelled error instead of going on.
C8_CancelObserved ==
    [][(cancel_flag /\ pc = "bfs") => pc' = "cancelled"]_<<q, lines, pc>>

(***************************************************************************)
(* SpecDedup: remove_duplicate_lines on every set of at most NumLines      *)
(* lines with ids 1..n and station lists of at most MaxStas stations, the  *)
(* container taken in every iteration order, run once and then once more   *)
(* on its own output                                                       *)
(***************************************************************************)
\* whether the container was visited in ascending id order or in another one
OrderKind(ord) == IF ord = AscendingOrder({ord[i] : i \in DOMAIN ord}) THEN "ascending" ELSE "other"

convIdle ==
    /\ geomap = EmptyMap /\ segmented_lines = EmptyMap /\ q = <<>> /\ routes = EmptyMap
    /\ pc = "idle" /\ cancel_flag = FALSE /\ stations = {} /\ input = EmptyMap

\* the container holding n lines whose station lists are given by f
DedupInput(n, f) == [id \in 1..n |-> [id |-> id, station_ids |-> f[id], is_loop |-> FALSE]]

InitDedup ==
    /\ \E n \in 1..NumLines : \E f \in [1..n -> SeqsUpTo(DedupStations, MaxStas)] :
          lines = DedupInput(n, f)
    /\ dd_in = lines
    /\ dd_pc = "input"
    /\ dd_alt = EmptyMap
    /\ dd_first = EmptyMap
    /\ dd_order = "none"
    /\ convIdle
    /\ srvIdle
    /\ optIdle

\* one call of remove_duplicate_lines; dd_alt is what the same call leaves when
\* the container iterates in ascending id order
DedupPass ==
    /\ dd_pc = "input"
    /\ \E ord \in Orders(DOMAIN lines) :
          /\ lines' = remove_duplicate_lines(lines, ord)
          /\ dd_order' = OrderKind(ord)
    /\ dd_alt' = remove_duplicate_lines(lines, AscendingOrder(DOMAIN lines))
    /\ dd_pc' = "once"
    /\ UNCHANGED <<dd_in, dd_first, geomap, segmented_lines, q, routes, pc, cancel_flag, stations, input, srvVars, opt>>

\* remove_duplicate_lines called again on what the first call left
DedupAgain ==
    /\ dd_pc = "once"
    /\ \E ord \in Orders(DOMAIN lines) :
          /\ lines' = remove_duplicate_lines(lines, ord)
          /\ dd_order' = OrderKind(ord)
    /\ dd_first' = lines
    /\ dd_pc' = "twice"
    /\ UNCHANGED <<dd_in, dd_alt, geomap, segmented_lines, q, routes, pc, cancel_flag, stations, input, srvVars, opt>>

NextDedup == DedupPass \/ DedupAgain

SpecDedup == InitDedup /\ [][NextDedup]_vars

(***************************************************************************)
(* Claims on remove_duplicate_lines                                        *)
(***************************************************************************)
SameOrReversed(a, b) == a = b \/ a = Reverse(b)

\* a is a contiguous run of b and strictly shorter (the empty list included)
StrictInfix(a, b) ==
    /\ Len(a) < Len(b)
    /\ \E i \in 0..(Len(b) - Len(a)) : \A k \in 1..Len(a) : a[k] = b[i + k]

\* C4 as stated: after one pass no two distinct remaining lines are equal or
\* reversed, and none is a strict contiguous infix of another or of its reverse.
C4_NoDuplicateNoInfix ==
    dd_pc = "once" =>
        \A x, y \in DOMAIN lines :
            x # y =>
                /\ ~SameOrReversed(lines[x].station_ids, lines[y].station_ids)
                /\ ~StrictInfix(lines[x].station_ids, lines[y].station_ids)
                /\ ~StrictInfix(lines[x].station_ids, Reverse(lines[y].station_ids))

\* What the single pass does establish: no two distinct remaining lines are
\* equal or reversed, and no remaining line with a non-empty station list is a
\* strict contiguous infix of another remaining line or of its reverse.
NoDuplicateNoNonEmptyInfix ==
    dd_pc = "once" =>
        \A x, y \in DOMAIN lines :
            x # y =>
                /\ ~SameOrReversed(lines[x].station_ids, lines[y].station_ids)
                /\ lines[x].station_ids # <<>> =>
                      /\ ~StrictInfix(lines[x].station_ids, lines[y].station_ids)
                      /\ ~StrictInfix(lines[x].station_ids, Reverse(lines[y].station_ids))

\* C5: the survivors of a pass are the same for every iteration order of the
\* container: the pass in any order leaves what the pass in ascending id order leaves.
C5_OrderIndependent == dd_pc = "once" => lines = dd_alt

\* a pass in a non-ascending order over an input with a duplicated (or
\* reversed) station list that erased a line
C5_Witness ==
    /\ dd_pc = "once"
    /\ dd_order = "other"
    /\ DOMAIN lines # DOMAIN dd_in
    /\ \E a, b \in DOMAIN dd_in :
          a # b /\ SameOrReversed(dd_in[a].station_ids, dd_in[b].station_ids)

\* C6: a second pass over the output of the first removes no line.
C6_Idempotent == dd_pc = "twice" => lines = dd_first

\* a second pass over the survivors of a first pass that erased a line
C6_Witness ==
    /\ dd_pc = "twice"
    /\ Cardinality(DOMAIN dd_first) >= 2
    /\ DOMAIN dd_first # DOMAIN dd_in

(***************************************************************************)
(* Task server (server/src/main.cc)                                        *)
(*                                                                         *)
(* One worker thread, one converter thread per processed task, one /get    *)
(* handler at a time and the cleanup daemon.  Every statement of           *)
(* process_task that writes a Task field is a step of its own: the fields  *)
(* are plain members written without a lock, so the handler and the        *)
(* cleanup can run between any two of them.  The conversion is seen from   *)
(* the server as a call that delivers a result, delivers an exception or   *)
(* is still running when the 15 s wait ends.  Time is counted in hours,    *)
(* one cleanup per hour.                                                   *)
(***************************************************************************)
MaxTasks == 2
\* hours since the epoch when the server starts
BootHour == 30
\* hours the cleanup daemon is followed for, in SpecServer and in SpecRetention
ServerHours == 2
Horizon == 27

\* std::chrono::hours(24), main.cc:63
RetentionHours == 24
\* value of a default-constructed time_point (Task::completed_at, main.cc:30)
Epoch == 0

Keys == 1..MaxTasks

\* outcome of rc_json.dump() and the texts the task can carry as error
RcJson == "rc_json"
ConversionException == "e.what()"
TimeoutMessage == "Conversion took longer than 15 seconds"
BuildException == "Conversion error: e.what()"

IsTerminal(st) == st \in {"completed", "failed", "timeout"}

\* Task::Task() and the assignments of /create (main.cc:35-37, 219-223)
NewTask ==
    [status |-> "pending", result |-> "", error_message |-> "",
     completed_at |-> Epoch, cancel_flag |-> FALSE]

WorkerIdle == [pc |-> "idle", key |-> 0]
GetIdle == [pc |-> "idle", key |-> 0, status |-> "", response |-> EmptyMap]

InitUpTo(max_tasks, hours) ==
    /\ extent = [tasks |-> max_tasks, hours |-> hours]
    /\ tasks = {}
    /\ task = EmptyMap
    /\ task_queue = <<>>
    /\ worker = WorkerIdle
    /\ conv = [k \in Keys |-> "none"]
    /\ get = GetIdle
    /\ now = BootHour
    /\ term_at = EmptyMap
    /\ enqueued = <<>>
    /\ convIdle /\ lines = EmptyMap
    /\ ddIdle
    /\ optIdle

InitServer == InitUpTo(MaxTasks, ServerHours)

\* the worker's statement at position p, moving to position p2
WorkerAt(p) == worker.pc = p
WorkerTo(p2) == worker' = [worker EXCEPT !.pc = p2]

\* POST /create with a well-formed body, up to the end of the first critical
\* section (main.cc:218-228): a fresh key, the task stored in tasks
CreateInsert ==
    /\ Cardinality(DOMAIN task) < extent.tasks
    /\ LET k == Cardinality(DOMAIN task) + 1 IN
          /\ task' = task @@ (k :> NewTask)
          /\ tasks' = tasks \cup {k}
    /\ UNCHANGED <<task_queue, worker, conv, get, now, term_at, extent, enqueued, convVars, ddVars, opt>>

\* the /create handlers that have stored their task and not yet pushed it
Creating == (DOMAIN task) \ {enqueued[i] : i \in DOMAIN enqueued}

\* the second critical section of /create and the notify (main.cc:230-234)
CreatePush ==
    /\ \E k \in Creating :
          /\ task_queue' = Append(task_queue, k)
          /\ enqueued' = Append(enqueued, k)
    /\ UNCHANGED <<tasks, task, worker, conv, get, now, term_at, extent, convVars, ddVars, opt>>

\* task_queue.back(), the newest element
back(qu) == qu[Len(qu)]

\* task_queue.front() (main.cc:149)
front(qu) == Head(qu)

\* a worker that takes the front task and leaves it in the queue
WorkerPeek ==
    /\ WorkerAt("idle")
    /\ task_queue # <<>>
    /\ worker' = [pc |-> "start", key |-> front(task_queue)]
    /\ UNCHANGED <<tasks, task, task_queue, conv, get, now, term_at, extent, enqueued, convVars, ddVars, opt>>

\* worker_thread_func: wait on queue_cv, take the front task
WorkerPop ==
    /\ WorkerAt("idle")
    /\ task_queue # <<>>
    /\ worker' = [pc |-> "start", key |-> front(task_queue)]
    /\ task_queue' = Tail(task_queue)
    /\ UNCHANGED <<tasks, task, conv, get, now, term_at, extent, enqueued, convVars, ddVars, opt>>

\* a write of one Task field by process_task, with no lock held
WriteField(p2, field, value) ==
    /\ task' = [task EXCEPT ![worker.key][field] = value]
    /\ worker' = IF p2 = "idle" THEN WorkerIdle ELSE [worker EXCEPT !.pc = p2]
    /\ term_at' = IF field = "status" /\ IsTerminal(value)
                  THEN term_at @@ (worker.key :> now) ELSE term_at
    /\ UNCHANGED <<tasks, task_queue, conv, get, now, extent, enqueued, convVars, ddVars, opt>>

\* a step of process_task that writes no Task field
WorkerStep(p2) ==
    /\ WorkerTo(p2)
    /\ UNCHANGED <<tasks, task, task_queue, conv, get, now, term_at, extent, enqueued, convVars, ddVars, opt>>

\* main.cc:80
SetProcessing ==
    /\ WorkerAt("start")
    /\ WriteField("build", "status", "processing")

\* main.cc:82, the Map constructor returns
BuildOk ==
    /\ WorkerAt("build")
    /\ WorkerStep("spawn")

\* main.cc:82, the Map constructor throws
BuildThrows ==
    /\ WorkerAt("build")
    /\ WorkerStep("catch_status")

\* main.cc:84-97
SpawnConverter ==
    /\ WorkerAt("spawn")
    /\ WorkerTo("wait15")
    /\ conv' = [conv EXCEPT ![worker.key] = "running"]
    /\ UNCHANGED <<tasks, task, task_queue, get, now, term_at, extent, enqueued, convVars, ddVars, opt>>

\* the converter thread: convert_to_rc returns and the promise gets {true, dump}
ConverterDelivers ==
    /\ \E k \in Keys :
          /\ conv[k] = "running"
          /\ conv' = [conv EXCEPT ![k] = "value"]
    /\ UNCHANGED <<tasks, task, task_queue, worker, get, now, term_at, extent, enqueued, convVars, ddVars, opt>>

\* the converter thread: convert_to_rc throws and the promise gets {false, what}
ConverterThrows ==
    /\ \E k \in Keys :
          /\ conv[k] = "running"
          /\ conv' = [conv EXCEPT ![k] = "exception"]
    /\ UNCHANGED <<tasks, task, task_queue, worker, get, now, term_at, extent, enqueued, convVars, ddVars, opt>>

\* a dispatcher that takes every delivered pair for a result
FutureReadyAsResult ==
    /\ WorkerAt("wait15")
    /\ conv[worker.key] \in {"value", "exception"}
    /\ WorkerStep("completed_status")

\* main.cc:99, 114-116: the future is ready within the 15 s
FutureReady ==
    /\ WorkerAt("wait15")
    /\ conv[worker.key] \in {"value", "exception"}
    /\ WorkerTo(IF conv[worker.key] = "value" THEN "completed_status" ELSE "failed_status")
    /\ UNCHANGED <<tasks, task, task_queue, conv, get, now, term_at, extent, enqueued, convVars, ddVars, opt>>

\* main.cc:99-100: the 15 s wait times out and the flag is stored
TimeoutStoreCancel ==
    /\ WorkerAt("wait15")
    /\ conv[worker.key] = "running"
    /\ WriteField("grace", "cancel_flag", TRUE)

\* a 500 ms wait that takes a result delivered within it
GraceWaitTakesResult ==
    /\ WorkerAt("grace")
    /\ WorkerStep(IF conv[worker.key] = "value" THEN "completed_status" ELSE "timeout_status")

\* main.cc:102-106: the 500 ms wait, then join or detach
GraceWait ==
    /\ WorkerAt("grace")
    /\ WorkerStep("timeout_status")

\* main.cc:108-111
WriteTimeoutStatus ==
    /\ WorkerAt("timeout_status")
    /\ WriteField("timeout_message", "status", "timeout")
WriteTimeoutMessage ==
    /\ WorkerAt("timeout_message")
    /\ WriteField("timeout_completed_at", "error_message", TimeoutMessage)
WriteTimeoutCompletedAt ==
    /\ WorkerAt("timeout_completed_at")
    /\ WriteField("idle", "completed_at", now)

\* main.cc:117-118
WriteCompletedStatus ==
    /\ WorkerAt("completed_status")
    /\ WriteField("result", "status", "completed")
WriteResult ==
    /\ WorkerAt("result")
    /\ WriteField("completed_at", "result", RcJson)

\* main.cc:120-121
WriteFailedStatus ==
    /\ WorkerAt("failed_status")
    /\ WriteField("error_message", "status", "failed")
WriteErrorMessage ==
    /\ WorkerAt("error_message")
    /\ WriteField("completed_at", "error_message", ConversionException)

\* main.cc:123
WriteCompletedAt ==
    /\ WorkerAt("completed_at")
    /\ WriteField("idle", "completed_at", now)

\* main.cc:125-128
CatchStatus ==
    /\ WorkerAt("catch_status")
    /\ WriteField("catch_message", "status", "failed")
CatchMessage ==
    /\ WorkerAt("catch_message")
    /\ WriteField("catch_completed_at", "error_message", BuildException)
CatchCompletedAt ==
    /\ WorkerAt("catch_completed_at")
    /\ WriteField("idle", "completed_at", now)

\* POST /get, main.cc:251-260: the lookup under tasks_mutex
GetLookup ==
    /\ get.pc = "idle"
    /\ \E k \in Keys :
          get' = IF k \in tasks
                 THEN [pc |-> "status", key |-> k, status |-> "", response |-> EmptyMap]
                 ELSE [pc |-> "responded", key |-> k, status |-> "",
                       response |-> [code |-> 404, status |-> "", payload |-> ""]]
    /\ UNCHANGED <<tasks, task, task_queue, worker, conv, now, term_at, extent, enqueued, convVars, ddVars, opt>>

\* main.cc:266-273: the switch reads task->status, with no lock held
GetReadStatus ==
    /\ get.pc = "status"
    /\ LET st == task[get.key].status IN
          get' = IF IsTerminal(st)
                 THEN [get EXCEPT !.pc = "payload", !.status = st]
                 ELSE [get EXCEPT !.pc = "responded", !.status = st,
                                  !.response = [code |-> 200, status |-> st, payload |-> ""]]
    /\ UNCHANGED <<tasks, task, task_queue, worker, conv, now, term_at, extent, enqueued, convVars, ddVars, opt>>

\* main.cc:275-288: the chosen case reads task->result or task->error_message
GetReadPayload ==
    /\ get.pc = "payload"
    /\ LET t == task[get.key]
           payload == IF get.status = "completed" THEN t.result ELSE t.error_message
       IN get' = [get EXCEPT !.pc = "responded",
                             !.response = [code |-> 200, status |-> get.status, payload |-> payload]]
    /\ UNCHANGED <<tasks, task, task_queue, worker, conv, now, term_at, extent, enqueued, convVars, ddVars, opt>>

\* the response is sent
GetReturn ==
    /\ get.pc = "responded"
    /\ get' = GetIdle
    /\ UNCHANGED <<tasks, task, task_queue, worker, conv, now, term_at, extent, enqueued, convVars, ddVars, opt>>

\* cleanup_old_tasks (main.cc:60-76) at the time t
cleanup_old_tasks(t) ==
    {k \in tasks : ~(IsTerminal(task[k].status) /\ task[k].completed_at < t - RetentionHours)}

\* cleanup_daemon (main.cc:160-165): sleep one hour, then cleanup_old_tasks
CleanupDaemon ==
    /\ now < BootHour + extent.hours
    /\ now' = now + 1
    /\ tasks' = cleanup_old_tasks(now + 1)
    /\ UNCHANGED <<task, task_queue, worker, conv, get, term_at, extent, enqueued, convVars, ddVars, opt>>

\* the /create handlers, the worker thread and the converter threads
NextWorker ==
    \/ CreateInsert \/ CreatePush \/ WorkerPop \/ SetProcessing \/ BuildOk \/ BuildThrows
    \/ SpawnConverter \/ ConverterDelivers \/ ConverterThrows \/ FutureReady
    \/ TimeoutStoreCancel \/ GraceWait
    \/ WriteTimeoutStatus \/ WriteTimeoutMessage \/ WriteTimeoutCompletedAt
    \/ WriteCompletedStatus \/ WriteResult \/ WriteFailedStatus \/ WriteErrorMessage
    \/ WriteCompletedAt \/ CatchStatus \/ CatchMessage \/ CatchCompletedAt

NextServer ==
    \/ NextWorker
    \/ GetLookup \/ GetReadStatus \/ GetReadPayload \/ GetReturn
    \/ CleanupDaemon

\* the worker side alone: no /get request and no cleanup within the run
SpecWorker == InitServer /\ [][NextWorker]_vars

SpecServer == InitServer /\ [][NextServer]_vars

\* one task followed through the retention period
InitRetention == InitUpTo(1, Horizon)

SpecRetention == InitRetention /\ [][NextServer]_vars

(***************************************************************************)
(* Claims on the task server                                               *)
(***************************************************************************)
\* C9: a /get response with status "completed" carries the conversion's
\* result, and one with status "failed" or "timeout" carries the error message.
C9_TerminalResponseCarriesPayload ==
    (get.pc = "responded" /\ get.response.code = 200) =>
        /\ get.response.status = "completed" => get.response.payload = RcJson
        /\ get.response.status \in {"failed", "timeout"} =>
              get.response.payload \in {ConversionException, TimeoutMessage, BuildException}

\* C10: a task whose status became terminal at hour t is in tasks at every
\* hour up to t + 23 and in none from t + 25 on.
C10_Retention ==
    \A k \in DOMAIN term_at :
        /\ now <= term_at[k] + 23 => k \in tasks
        /\ now >= term_at[k] + 25 => k \notin tasks

\* C11: of two tasks, the one pushed on the queue later has not entered
\* Processing unless the one pushed earlier has reached a terminal status.
C11_FifoByEnqueue ==
    \A i, j \in DOMAIN enqueued :
        (i < j /\ task[enqueued[j]].status # "pending") => IsTerminal(task[enqueued[i]].status)

\* two /create handlers overtook each other between the two critical sections,
\* and the task pushed second is being processed after the first one finished
C11_Witness ==
    /\ Len(enqueued) >= 2
    /\ enqueued[1] > enqueued[2]
    /\ task[enqueued[2]].status = "processing"
    /\ IsTerminal(task[enqueued[1]].status)

\* C12: when the 15 s wait ends with the converter still running, the
\* dispatcher stores the task's cancellation flag and goes to the 500 ms wait,
\* after which the next status it writes is Timeout; a task whose status is
\* Timeout keeps it in every later step, whatever the converter thread does.
C12_TimeoutIsFinal ==
    [][\A k \in DOMAIN task :
          /\ task[k].status = "timeout" => task'[k].status = "timeout"
          /\ (worker.key = k /\ worker.pc = "wait15" /\ conv[k] = "running" /\ worker' # worker)
                => (worker'.pc = "grace" /\ task'[k].cancel_flag)
          /\ (worker.key = k /\ worker.pc = "grace" /\ worker' # worker)
                => (worker'.pc = "timeout_status" /\ task'[k].cancel_flag)
          /\ (worker.key = k /\ worker.pc = "timeout_status" /\ worker' # worker)
                => task'[k].status = "timeout"]_vars

\* a task recorded as Timeout whose abandoned converter has delivered a result
\* while the worker is already processing the next task
C12_Witness ==
    \E k \in DOMAIN task :
        /\ task[k].status = "timeout"
        /\ task[k].cancel_flag
        /\ conv[k] = "value"
        /\ worker.key \notin {0, k}

\* process_task has returned for task k
Processed(k) == task[k].status # "pending" /\ worker.key # k

\* C13 as stated: a task whose map construction or route enumeration raised an
\* exception ends Failed with the exception's message, never Completed and
\* never left in Processing.
C13_ExceptionEndsFailed ==
    \A k \in DOMAIN task :
        Processed(k) =>
            /\ IsTerminal(task[k].status)
            /\ conv[k] = "none" =>
                  (task[k].status = "failed" /\ task[k].error_message = BuildException)
            /\ conv[k] = "exception" =>
                  (task[k].status = "failed" /\ task[k].error_message = ConversionException)

\* C13 amended: the same, except that an exception of the enumeration that the
\* converter thread delivers after the 15 s wait has ended leaves the task
\* Timeout (with the cancellation flag set) instead of Failed.
C13_ExceptionEndsFailedOrTimeout ==
    \A k \in DOMAIN task :
        Processed(k) =>
            /\ IsTerminal(task[k].status)
            /\ conv[k] = "none" =>
                  (task[k].status = "failed" /\ task[k].error_message = BuildException)
            /\ conv[k] = "exception" =>
                  \/ task[k].status = "failed" /\ task[k].error_message = ConversionException
                  \/ task[k].status = "timeout" /\ task[k].cancel_flag
            /\ task[k].status = "completed" => conv[k] = "value"

\* the first task failed on an exception of the enumeration, the second on an
\* exception of the builder, and the worker is back waiting on the queue
C13_Witness ==
    /\ Len(enqueued) >= 2
    /\ worker = WorkerIdle
    /\ conv[enqueued[1]] = "exception"
    /\ task[enqueued[1]].status = "failed"
    /\ task[enqueued[1]].error_message = ConversionException
    /\ conv[enqueued[2]] = "none"
    /\ task[enqueued[2]].status = "failed"
    /\ task[enqueued[2]].error_message = BuildException

(***************************************************************************)
(* add_lines (converter.cc:306-418) with the segmentation optimizer        *)
(*                                                                         *)
(* get_lines is taken as a function here: seeding, the BFS run until the   *)
(* queue is empty, remove_duplicate_lines.  The inputs have no missing     *)
(* point and no cycle of tracks, so the run ends without an exception.     *)
(***************************************************************************)
MaxCfgIter == 1

\* the BFS loop of get_lines (converter.cc:284-299) run to the end
RECURSIVE RunBFS(_, _, _)
RunBFS(gm, seg, st) ==
    IF st.q = <<>> THEN st ELSE RunBFS(gm, seg, BFSIteration(gm, seg, st))

\* get_lines (converter.cc:113-304)
get_lines(gm, seg, mask) ==
    LET seeded == SeedAll(gm, seg, mask, [q |-> <<>>, lines |-> EmptyMap, routes |-> EmptyMap],
                          AscendingOrder(DOMAIN gm.lines), 1)
        st == RunBFS(gm, seg, seeded)
    IN remove_duplicate_lines(st.lines, AscendingOrder(DOMAIN st.lines))

\* the get_line_count lambda (converter.cc:357-360)
get_line_count(gm, seg_config, mask) == Cardinality(DOMAIN get_lines(gm, seg_config, mask))

\* seg_groups (converter.cc:320-328): the negative values and the lines holding them
GroupKeys(gm) ==
    {gm.config.segmented_lines[l] : l \in {x \in DOMAIN gm.config.segmented_lines :
                                              gm.config.segmented_lines[x] < 0}}

GroupLines(gm, key) == {l \in DOMAIN gm.config.segmented_lines : gm.config.segmented_lines[l] = key}

\* segmented_lines after the grouping loop (converter.cc:322-328)
InitialSegmentation(gm) ==
    [l \in DOMAIN gm.config.segmented_lines |->
        IF gm.config.segmented_lines[l] < 0 THEN 2 * gm.config.max_rc_steps
        ELSE gm.config.segmented_lines[l]]

\* lines_mask (converter.cc:335-355): the group lines and everything reached
\* from them along friend_lines and merged_lines
RECURSIVE MaskClosure(_, _)
MaskClosure(gm, m) ==
    LET more == {p[2] : p \in {r \in gm.config.friend_lines \cup gm.config.merged_lines : r[1] \in m}}
    IN IF more \subseteq m THEN m ELSE MaskClosure(gm, m \cup more)

lines_mask(gm) == MaskClosure(gm, UNION {GroupLines(gm, key) : key \in GroupKeys(gm)})

\* the deltas of an outer iteration (converter.cc:371-373)
Deltas(iteration) ==
    IF iteration < 3 THEN <<-11, -5, -2, 2, 5, 11>> ELSE <<-5, -2, 2, 5>>

\* a scan of the deltas that lets every trial value below 2 * max_length pass
RECURSIVE TryDeltasNoUpperBound(_, _, _, _, _, _, _, _)
TryDeltasNoUpperBound(gm, mask, sigma, line_ids, current_val, deltas, k, best) ==
    IF k > Len(deltas) THEN best
    ELSE LET new_val == current_val + deltas[k]
         IN IF new_val <= gm.config.max_rc_steps
            THEN TryDeltasNoUpperBound(gm, mask, sigma, line_ids, current_val, deltas, k + 1, best)
            ELSE LET temp_config == [l \in DOMAIN sigma |-> IF l \in line_ids THEN new_val ELSE sigma[l]]
                     new_count == get_line_count(gm, temp_config, mask)
                 IN TryDeltasNoUpperBound(gm, mask, sigma, line_ids, current_val, deltas, k + 1,
                        IF new_count < best.count
                        THEN [val |-> new_val, count |-> new_count, improved |-> TRUE,
                              tried |-> best.tried \cup {new_val}]
                        ELSE [best EXCEPT !.tried = @ \cup {new_val}])

\* the loop over the deltas for one group (converter.cc:382-401), from delta k;
\* best = [val, count, improved, tried], tried the trial values handed to
\* get_line_count so far
RECURSIVE TryDeltas(_, _, _, _, _, _, _, _)
TryDeltas(gm, mask, sigma, line_ids, current_val, deltas, k, best) ==
    IF k > Len(deltas) THEN best
    ELSE LET new_val == current_val + deltas[k]
         IN IF new_val <= gm.config.max_rc_steps \/ new_val >= gm.config.max_length * 2
            THEN TryDeltas(gm, mask, sigma, line_ids, current_val, deltas, k + 1, best)
            ELSE LET temp_config == [l \in DOMAIN sigma |-> IF l \in line_ids THEN new_val ELSE sigma[l]]
                     new_count == get_line_count(gm, temp_config, mask)
                 IN TryDeltas(gm, mask, sigma, line_ids, current_val, deltas, k + 1,
                        IF new_count < best.count
                        THEN [val |-> new_val, count |-> new_count, improved |-> TRUE,
                              tried |-> best.tried \cup {new_val}]
                        ELSE [best EXCEPT !.tried = @ \cup {new_val}])

\* maps for the optimizer: line 1 is 1-2-..-k on the x axis; beside 1-2-3-4
\* there may run 13-1-2-3 and 2-3-4-5, lines of their own over the same
\* points; or line 11-2-12 crosses 1-2-3 at point 2
OptShapes ==
    {<<[i \in 1..k |-> i]>> : k \in 2..MaxLinePoints}
    \cup {<<<<1, 2, 3, 4>>, <<13, 1, 2, 3>>>>,
          <<<<1, 2, 3, 4>>, <<2, 3, 4, 5>>>>,
          <<<<1, 2, 3, 4>>, <<13, 1, 2, 3>>, <<2, 3, 4, 5>>>>,
          <<<<1, 2, 3>>, <<11, 2, 12>>>>}

IsCrossing(shape) == Len(shape) = 2 /\ shape[2] = <<11, 2, 12>>

OptAarcInputs ==
    UNION {{[points |-> [p \in PointsOf(shape) |-> [pos |-> PosOf(p), type |-> ty[p]]],
             lines |-> shape] : ty \in [PointsOf(shape) -> {"Station", "Node"}]}
           : shape \in OptShapes}

\* config descriptors: line 1 in a group of its own, the last line possibly in
\* a second group, or line 1 with a positive segment_length; friend or merged
\* pair (1, 2) on the crossing only
OptConfigInputs(a) ==
    LET n == Len(a.lines) IN
    {[max_length |-> ml, max_rc_steps |-> 1, merge_consecutive_duplicates |-> TRUE,
      optimize_segmentation |-> os, max_iterations |-> mi,
      friend_lines |-> IF rel = "friend" THEN {<<1, 2>>} ELSE {},
      merged_lines |-> IF rel = "merged" THEN {<<1, 2>>} ELSE {},
      segmented_lines |-> sg]
     : ml \in {0, MaxCfgLength + 1}, os \in BOOLEAN, mi \in 0..MaxCfgIter,
       rel \in IF IsCrossing(a.lines) THEN {"none", "friend", "merged"} ELSE {"none"},
       sg \in {<<>>,
               <<[lines |-> {1}, segment_length |-> 0]>>,
               <<[lines |-> {1}, segment_length |-> 0], [lines |-> {n}, segment_length |-> 0]>>,
               <<[lines |-> {1}, segment_length |-> MaxCfgSeg]>>}}

OptInitial ==
    [mask |-> {}, group_order |-> <<>>, pending |-> <<>>, current_count |-> 0,
     improved |-> TRUE, iteration |-> 0, commits |-> 0, tried |-> {}]

InitOpt ==
    /\ \E a \in OptAarcInputs : \E c \in OptConfigInputs(a) :
          /\ input = [aarc |-> a, config_json |-> c]
          /\ geomap = BuildMap(a, c)
    /\ segmented_lines = EmptyMap
    /\ q = <<>>
    /\ lines = EmptyMap
    /\ routes = EmptyMap
    /\ stations = {}
    /\ pc = "add_lines"
    /\ cancel_flag = FALSE
    /\ opt = OptInitial
    /\ ddIdle
    /\ srvIdle

\* add_lines without the optimizer (converter.cc:307-316)
AddLinesPlain ==
    /\ pc = "add_lines"
    /\ ~geomap.config.optimize_segmentation
    /\ segmented_lines' = DefaultSegmentation(geomap)
    /\ lines' = get_lines(geomap, DefaultSegmentation(geomap), {})
    /\ pc' = "returned"
    /\ UNCHANGED <<geomap, q, routes, cancel_flag, stations, input, opt, ddVars, srvVars>>

\* add_lines with the optimizer and no negative entry (converter.cc:318-333)
AddLinesNoGroups ==
    /\ pc = "add_lines"
    /\ geomap.config.optimize_segmentation
    /\ GroupKeys(geomap) = {}
    /\ segmented_lines' = InitialSegmentation(geomap)
    /\ lines' = get_lines(geomap, InitialSegmentation(geomap), {})
    /\ pc' = "returned"
    /\ UNCHANGED <<geomap, q, routes, cancel_flag, stations, input, opt, ddVars, srvVars>>

\* the groups, the mask and the first count (converter.cc:318-365); the
\* iteration order of seg_groups is fixed here for the whole descent
OptPrepare ==
    /\ pc = "add_lines"
    /\ geomap.config.optimize_segmentation
    /\ GroupKeys(geomap) # {}
    /\ segmented_lines' = InitialSegmentation(geomap)
    /\ \E order \in Orders(GroupKeys(geomap)) :
          opt' = [OptInitial EXCEPT
                     !.mask = lines_mask(geomap),
                     !.group_order = order,
                     !.current_count = get_line_count(geomap, InitialSegmentation(geomap), lines_mask(geomap))]
    /\ pc' = "while"
    /\ UNCHANGED <<geomap, q, lines, routes, cancel_flag, stations, input, ddVars, srvVars>>

\* the head of the outer loop (converter.cc:367-373)
OptIterate ==
    /\ pc = "while"
    /\ opt.improved /\ opt.iteration < geomap.config.max_iterations
    /\ opt' = [opt EXCEPT !.improved = FALSE, !.iteration = opt.iteration + 1,
                          !.pending = opt.group_order]
    /\ pc' = "groups"
    /\ UNCHANGED <<geomap, segmented_lines, q, lines, routes, cancel_flag, stations, input, ddVars, srvVars>>

\* the body of the loop over seg_groups for one group (converter.cc:376-412)
OptGroup ==
    /\ pc = "groups"
    /\ opt.pending # <<>>
    /\ LET line_ids == GroupLines(geomap, Head(opt.pending))
           current_val == segmented_lines[CHOOSE l \in line_ids : TRUE]
           best == TryDeltas(geomap, opt.mask, segmented_lines, line_ids, current_val,
                             Deltas(opt.iteration), 1,
                             [val |-> current_val, count |-> opt.current_count,
                              improved |-> opt.improved, tried |-> opt.tried])
       IN /\ segmented_lines' = IF best.val # current_val
                                THEN [l \in DOMAIN segmented_lines |->
                                         IF l \in line_ids THEN best.val ELSE segmented_lines[l]]
                                ELSE segmented_lines
          /\ opt' = [opt EXCEPT !.pending = Tail(opt.pending),
                                !.improved = best.improved,
                                !.tried = best.tried,
                                !.current_count = IF best.val # current_val THEN best.count
                                                  ELSE opt.current_count,
                                !.commits = IF best.val # current_val THEN opt.commits + 1
                                            ELSE opt.commits]
    /\ UNCHANGED <<geomap, q, lines, routes, pc, cancel_flag, stations, input, ddVars, srvVars>>

\* the loop over seg_groups has visited every group
OptEndPass ==
    /\ pc = "groups"
    /\ opt.pending = <<>>
    /\ pc' = "while"
    /\ UNCHANGED <<geomap, segmented_lines, q, lines, routes, cancel_flag, stations, input, opt, ddVars, srvVars>>

\* the outer loop ends and the unmasked enumeration is returned (converter.cc:367, 417)
OptFinish ==
    /\ pc = "while"
    /\ ~(opt.improved /\ opt.iteration < geomap.config.max_iterations)
    /\ lines' = get_lines(geomap, segmented_lines, {})
    /\ pc' = "returned"
    /\ UNCHANGED <<geomap, segmented_lines, q, routes, cancel_flag, stations, input, opt, ddVars, srvVars>>

NextOpt ==
    \/ AddLinesPlain \/ AddLinesNoGroups \/ OptPrepare \/ OptIterate \/ OptGroup
    \/ OptEndPass \/ OptFinish

SpecOpt == InitOpt /\ [][NextOpt]_vars

\* the count add_lines returns without the optimizer: every entry that is not
\* positive enumerated with 2 * max_rc_steps (converter.cc:307-316)
DefaultRunCount == get_line_count(geomap, DefaultSegmentation(geomap), {})

OptimizedRunReturned ==
    /\ pc = "returned"
    /\ geomap.config.optimize_segmentation
    /\ GroupKeys(geomap) # {}

\* C14: with at least one negative segmentation group, the optimized run never
\* returns more RC lines than the run without the optimizer
C14_OptimizedNotWorse ==
    OptimizedRunReturned => Cardinality(DOMAIN lines) <= DefaultRunCount

\* C15: with optimize_segmentation enabled and max_iterations = 0 in the config
\* descriptor, no descent step is taken and the returned count is that of the
\* run without the optimizer
C15_ZeroIterationsNoDescent ==
    (OptimizedRunReturned /\ input.config_json.max_iterations = 0)
        => (opt.iteration = 0 /\ opt.commits = 0 /\ Cardinality(DOMAIN lines) = DefaultRunCount)

\* every line of the descriptor is a loop of length 2, [a, a]
OnlyLoopsOfTwo ==
    \A l \in DOMAIN input.aarc.lines :
        Len(input.aarc.lines[l]) = 2 /\ input.aarc.lines[l][1] = input.aarc.lines[l][2]

\* C16: a line whose point list is a loop of length 2 contributes no RC line,
\* whether its point is a Station or a Node and whether it is simple or not
C16_LoopOfTwoEmitsNothing ==
    (pc = "done" /\ OnlyLoopsOfTwo) => lines = EmptyMap

(***************************************************************************)
(* SpecGrid: convert_to_rc on rows of points laid on a grid, so that the   *)
(* auto-group step (geometry.cc:1025-1037) has stations within reach       *)
(***************************************************************************)
\* a grid of rows x cols points, `step` apart; point (r, c) has id
\* (r - 1) * cols + c and every row is a line
GridAarc(rows, cols, step, ty) ==
    [points |-> [p \in 1..(rows * cols) |->
                    [pos |-> <<step * ((p - 1) % cols), step * ((p - 1) \div cols)>>, type |-> ty[p]]],
     lines |-> [r \in 1..rows |-> [c \in 1..cols |-> (r - 1) * cols + c]]]

\* the 2 x 2 grid with one line around it, the loop [1,2,4,3,1]
GridRing(step, ty) ==
    [GridAarc(2, 2, step, ty) EXCEPT !.lines = <<<<1, 2, 4, 3, 1>>>>]

GridAarcInputs ==
    UNION {{GridAarc(rows, cols, step, ty) : ty \in [1..(rows * cols) -> {"Station", "Node"}]}
           : rows \in 1..2, cols \in 2..3, step \in {10, 30}}
    \cup {GridRing(step, ty) : step \in {10, 30}, ty \in [1..4 -> {"Station", "Node"}]}

\* the default config, with merge_consecutive_duplicates possibly switched
\* off, lines 1 and 2 possibly friends, and possibly a key auto_group_distance
\* (0 stands for a descriptor without the key)
GridConfigInputs(n) ==
    {[max_length |-> 0, max_rc_steps |-> 0, merge_consecutive_duplicates |-> md,
      optimize_segmentation |-> FALSE, max_iterations |-> 0,
      auto_group_distance |-> agd,
      friend_lines |-> IF fr THEN {<<1, n>>} ELSE {},
      merged_lines |-> {}, segmented_lines |-> <<>>]
     : md \in BOOLEAN, fr \in BOOLEAN, agd \in {0, 5, 40}}

InitGrid ==
    /\ \E a \in GridAarcInputs : \E c \in GridConfigInputs(Len(a.lines)) :
          /\ input = [aarc |-> a, config_json |-> c]
          /\ geomap = BuildMap(a, c)
    /\ segmented_lines = EmptyMap
    /\ q = <<>>
    /\ lines = EmptyMap
    /\ routes = EmptyMap
    /\ stations = {}
    /\ pc = "add_stations"
    /\ cancel_flag = FALSE
    /\ ddIdle
    /\ srvIdle
    /\ optIdle

NextGrid == AddStations \/ Seed \/ BFSStep \/ BFSTruncate \/ Dedup

SpecGrid == InitGrid /\ [][NextGrid]_vars

\* Stations 1,2,3 at (0,0),(10,0),(20,0) and 4,5,6 at (0,10),(10,10),(20,10),
\* lines [1,2,3] and [4,5,6], default config
ScenarioOne ==
    /\ input.aarc = GridAarc(2, 3, 10, [p \in 1..6 |-> "Station"])
    /\ input.config_json.merge_consecutive_duplicates
    /\ input.config_json.friend_lines = {}
    /\ input.config_json.auto_group_distance = 0

InitSeed == Init \/ InitGrid

NextSeed == AddStations \/ Seed

SpecSeed == InitSeed /\ [][NextSeed]_vars

(***************************************************************************)
(* The simple-line shortcut, stated without the loop of the code           *)
(***************************************************************************)
\* the Station-typed points of a point list, in order, as group ids
GroupedStations(gm, pids) ==
    LET IsSt(p) == p \in DOMAIN gm.points /\ gm.points[p].type = "Station"
        sts == SelectSeq(pids, IsSt)
    IN [i \in 1..Len(sts) |->
           IF sts[i] \in DOMAIN gm.point_to_group THEN gm.point_to_group[sts[i]] ELSE sts[i]]

\* a sequence without the elements equal to their predecessor
RECURSIVE Collapsed(_)
Collapsed(sq) ==
    IF Len(sq) <= 1 THEN sq
    ELSE LET rest == Collapsed(Tail(sq))
         IN IF sq[1] = sq[2] THEN rest ELSE <<sq[1]>> \o rest

ExpectedSimpleStations(gm, l) ==
    IF gm.config.merge_consecutive_duplicates
    THEN Collapsed(GroupedStations(gm, gm.lines[l].point_ids))
    ELSE GroupedStations(gm, gm.lines[l].point_ids)

\* the RC lines the shortcut emitted for line l
EmittedBySimple(l) ==
    {id \in DOMAIN lines : routes[id].kind = "simple" /\ routes[id].line_ids[1] = l}

\* line l has a seed in the queue or a route among the emitted lines
EnumeratedByBFS(l) ==
    \/ \E k \in DOMAIN q : \E j \in DOMAIN q[k].tracks : q[k].tracks[j].line_id = l
    \/ \E id \in DOMAIN lines :
          routes[id].kind = "bfs" /\ \E j \in DOMAIN routes[id].line_ids : routes[id].line_ids[j] = l

Seeded == pc \in {"bfs", "failed", "truncated"}

\* C18: for every simple line with at least 2 points, seeding emits exactly one
\* RC line and no BFS seed; its station list is the Station-typed points of the
\* line in order, as group ids, consecutive equal ids collapsed when
\* merge_consecutive_duplicates is set; its is_loop flag is the line's
C18_SimpleShortcut ==
    Seeded =>
        \A l \in DOMAIN geomap.lines :
            (geomap.lines[l].is_simple /\ Len(geomap.lines[l].point_ids) >= 2) =>
                /\ Cardinality(EmittedBySimple(l)) = 1
                /\ ~EnumeratedByBFS(l)
                /\ \A id \in EmittedBySimple(l) :
                      /\ lines[id].station_ids = ExpectedSimpleStations(geomap, l)
                      /\ lines[id].is_loop = geomap.lines[l].is_loop

\* a simple loop over four grouped Stations has been emitted as one RC line
\* that is a loop and holds the group id once
C18_Witness ==
    /\ Seeded
    /\ geomap.lines[1].is_simple
    /\ geomap.lines[1].point_ids = <<1, 2, 4, 3, 1>>
    /\ DOMAIN geomap.point_to_group = 1..4
    /\ lines # EmptyMap
    /\ lines[1].station_ids = <<geomap.point_to_group[1]>>
    /\ lines[1].is_loop

(***************************************************************************)
(* SpecShortcut: get_lines on a map of simple lines, once as the code runs *)
(* it (the shortcut of converter.cc:240-256) and once with the shortcut    *)
(* skipped, so that every line is seeded at its two ends (converter.cc:    *)
(* 258-268) and enumerated by the BFS.  `lines` holds the first result,    *)
(* `opt` the second.  A loop without a Station is left out: the BFS on it  *)
(* never fills an entry.                                                   *)
(***************************************************************************)
ShortcutShapes ==
    {<<[i \in 1..k |-> i]>> : k \in 2..MaxLinePoints}
    \cup {<<<<1, 2, 3>>, <<11, 2, 12>>>>,
          <<<<1, 2, 11, 13, 1>>>>,
          <<<<1, 1>>>>}

ShortcutAarcInputs ==
    {a \in UNION {{[points |-> [p \in PointsOf(shape) |-> [pos |-> PosOf(p), type |-> ty[p]]],
                    lines |-> shape] : ty \in [PointsOf(shape) -> {"Station", "Node"}]}
                  : shape \in ShortcutShapes}
       : \A l \in DOMAIN a.lines :
            IsLoopByEndpoints(a.lines[l]) =>
                \E i \in DOMAIN a.lines[l] : a.points[a.lines[l][i]].type = "Station"}

\* no friend pair, no merged pair, no segmentation entry; a map with a loop
\* is given a max_length, since under the default of 128 the BFS walks the
\* ring until a route holds 128 stations
ShortcutConfigInputs(a) ==
    {[max_length |-> ml, max_rc_steps |-> 1, merge_consecutive_duplicates |-> md,
      optimize_segmentation |-> FALSE, max_iterations |-> 0,
      friend_lines |-> {}, merged_lines |-> {}, segmented_lines |-> <<>>]
     : ml \in IF \E l \in DOMAIN a.lines : IsLoopByEndpoints(a.lines[l])
              THEN 1..MaxCfgLength ELSE 0..MaxCfgLength,
       md \in BOOLEAN}

InitShortcut ==
    /\ \E a \in ShortcutAarcInputs : \E c \in ShortcutConfigInputs(a) :
          /\ input = [aarc |-> a, config_json |-> c]
          /\ geomap = BuildMap(a, c)
    /\ segmented_lines = EmptyMap
    /\ q = <<>>
    /\ lines = EmptyMap
    /\ routes = EmptyMap
    /\ stations = {}
    /\ pc = "add_lines"
    /\ cancel_flag = FALSE
    /\ ddIdle
    /\ srvIdle
    /\ optIdle

\* the map with the is_simple flag of every line cleared
WithoutShortcut(gm) ==
    [gm EXCEPT !.lines = [l \in DOMAIN gm.lines |-> [gm.lines[l] EXCEPT !.is_simple = FALSE]]]

\* get_lines as add_lines calls it (converter.cc:307-316)
RunShortcut ==
    /\ pc = "add_lines"
    /\ segmented_lines' = DefaultSegmentation(geomap)
    /\ lines' = get_lines(geomap, DefaultSegmentation(geomap), {})
    /\ pc' = "returned"
    /\ UNCHANGED <<geomap, q, routes, cancel_flag, stations, input, opt, ddVars, srvVars>>

\* get_lines with every line taken through the seeds and the BFS
\* (converter.cc:258-268, 284-301)
RunEnumeration ==
    /\ pc = "returned"
    /\ opt' = get_lines(WithoutShortcut(geomap), segmented_lines, {})
    /\ pc' = "compared"
    /\ UNCHANGED <<geomap, segmented_lines, q, lines, routes, cancel_flag, stations, input, ddVars, srvVars>>

NextShortcut == RunShortcut \/ RunEnumeration

SpecShortcut == InitShortcut /\ [][NextShortcut]_vars

\* the station sequences of a result, a sequence and its reverse taken as one
UpToReversal(ls) ==
    {{ls[id].station_ids, Reverse(ls[id].station_ids)} : id \in DOMAIN ls}

\* C19: on a map with no friend pair, no merged pair, no segmentation entry and
\* only simple lines, the BFS from the two end seeds of each line followed by
\* the deduplication yields the same station sequences, up to reversal, as the
\* simple-line shortcut
C19_EnumerationEqualsShortcut ==
    pc = "compared" => UpToReversal(opt) = UpToReversal(lines)

(***************************************************************************)
(* SpecBuilder: Map::Map from the parsing of segmented_lines               *)
(* (geometry.cc:907-997) to the end of the constructor.  segmented_lines   *)
(* holds config.segmented_lines as parsed, geomap the finished map.        *)
(***************************************************************************)
MaxSegEntries == 2
MaxCfgRcSteps == 2

\* the line id 3 names no line of the descriptor
SegEntryInputs ==
    {[lines |-> ls, segment_length |-> n] : ls \in {{1}, {2}, {1, 2}, {3}}, n \in -1..MaxCfgSeg}

BuilderAarc ==
    [points |-> [p \in {1, 2, 3, 11, 12} |-> [pos |-> PosOf(p), type |-> "Station"]],
     lines |-> <<<<1, 2, 3>>, <<11, 2, 12>>>>]

BuilderConfigInputs ==
    {[max_length |-> 0, max_rc_steps |-> mrs, merge_consecutive_duplicates |-> TRUE,
      optimize_segmentation |-> FALSE, max_iterations |-> 0,
      friend_lines |-> {}, merged_lines |-> {}, segmented_lines |-> sg]
     : mrs \in 0..MaxCfgRcSteps, sg \in SeqsUpTo(SegEntryInputs, MaxSegEntries)}

InitBuilder ==
    /\ \E c \in BuilderConfigInputs : input = [aarc |-> BuilderAarc, config_json |-> c]
    /\ geomap = EmptyMap
    /\ segmented_lines = EmptyMap
    /\ q = <<>>
    /\ lines = EmptyMap
    /\ routes = EmptyMap
    /\ stations = {}
    /\ pc = "parse"
    /\ cancel_flag = FALSE
    /\ ddIdle
    /\ srvIdle
    /\ optIdle

\* the loop over config_json["segmented_lines"] (geometry.cc:907-997)
BuilderParse ==
    /\ pc = "parse"
    /\ segmented_lines' = ParseSegmented(input.config_json.segmented_lines, 1,
                                         DOMAIN input.aarc.lines, <<>>)
    /\ pc' = "parsed"
    /\ UNCHANGED <<geomap, q, lines, routes, cancel_flag, stations, input, opt, ddVars, srvVars>>

\* the rest of the constructor, the clamp included (geometry.cc:999-1113)
BuilderFinish ==
    /\ pc = "parsed"
    /\ geomap' = BuildMap(input.aarc, input.config_json)
    /\ pc' = "built"
    /\ UNCHANGED <<segmented_lines, q, lines, routes, cancel_flag, stations, input, opt, ddVars, srvVars>>

NextBuilder == BuilderParse \/ BuilderFinish

SpecBuilder == InitBuilder /\ [][NextBuilder]_vars

\* the entries of the descriptor that name line l
EntriesNaming(l) ==
    {k \in DOMAIN input.config_json.segmented_lines : l \in input.config_json.segmented_lines[k].lines}

\* C20: after the builder every positive value of config.segmented_lines is
\* strictly greater than max_rc_steps, and every negative value is the one the
\* parsing stored: -k, k the 1-based index of the last entry naming the line
C20_ClampedAboveMaxRcSteps ==
    pc = "built" =>
        /\ DOMAIN geomap.config.segmented_lines = DOMAIN segmented_lines
        /\ \A l \in DOMAIN geomap.config.segmented_lines :
              LET v == geomap.config.segmented_lines[l]
              IN /\ v # 0
                 /\ v > 0 => v > geomap.config.max_rc_steps
                 /\ segmented_lines[l] < 0 => v = segmented_lines[l]
                 /\ v < 0 => /\ -v \in EntriesNaming(l)
                             /\ \A k \in EntriesNaming(l) : k <= -v
                             /\ v = segmented_lines[l]

\* line 1 was given a length no greater than max_rc_steps and has been lifted
\* above it; line 2 holds the group identifier of the second entry
C20_Witness ==
    /\ pc = "built"
    /\ DOMAIN segmented_lines = {1, 2}
    /\ segmented_lines[1] > 0
    /\ segmented_lines[1] <= geomap.config.max_rc_steps
    /\ geomap.config.segmented_lines[1] = geomap.config.max_rc_steps + 1
    /\ geomap.config.segmented_lines[2] = -2

(***************************************************************************)
(* SpecLines: Map::Map on one line, step by step: the loading of the line  *)
(* (geometry.cc:723-805), add_auxiliary_points (geometry.cc:455-587), the  *)
(* loop refinement (geometry.cc:1057-1073) and the rest of the             *)
(* constructor.  `lines` holds Map::lines while the constructor runs.      *)
(***************************************************************************)
MaxLoadPoints == 5

\* every point list of 1..MaxLoadPoints ids over the points 1, 2, 3 of the x
\* axis and an id that names no point
LinesAarcInputs ==
    {[points |-> [p \in {1, 2, 3} |-> [pos |-> PosOf(p), type |-> "Station"]],
      lines |-> <<pts>>] : pts \in SeqsUpTo({1, 2, 3, MissingPoint}, MaxLoadPoints) \ {<<>>}}

DefaultConfigJson ==
    [max_length |-> 0, max_rc_steps |-> 0, merge_consecutive_duplicates |-> TRUE,
     optimize_segmentation |-> FALSE, max_iterations |-> 0,
     friend_lines |-> {}, merged_lines |-> {}, segmented_lines |-> <<>>]

InitLines ==
    /\ \E a \in LinesAarcInputs : input = [aarc |-> a, config_json |-> DefaultConfigJson]
    /\ geomap = EmptyMap
    /\ segmented_lines = EmptyMap
    /\ q = <<>>
    /\ lines = EmptyMap
    /\ routes = EmptyMap
    /\ stations = {}
    /\ pc = "load"
    /\ cancel_flag = FALSE
    /\ ddIdle
    /\ srvIdle
    /\ optIdle

\* the loading of the lines (geometry.cc:723-796)
LoadLines ==
    /\ pc = "load"
    /\ lines' = [l \in DOMAIN input.aarc.lines |->
                    [point_ids |-> input.aarc.lines[l],
                     is_loop |-> IsLoopByEndpoints(input.aarc.lines[l])]]
    /\ pc' = "loaded"
    /\ UNCHANGED <<geomap, segmented_lines, q, routes, cancel_flag, stations, input, opt, ddVars, srvVars>>

\* add_auxiliary_points (geometry.cc:455-587, called at geometry.cc:1000)
AddAuxiliaryPoints ==
    /\ pc = "loaded"
    /\ lines' = [l \in DOMAIN lines |->
                    [lines[l] EXCEPT !.point_ids =
                        AuxPointIds(input.aarc.points, lines[l].point_ids, lines[l].is_loop)]]
    /\ pc' = "auxiliary"
    /\ UNCHANGED <<geomap, segmented_lines, q, routes, cancel_flag, stations, input, opt, ddVars, srvVars>>

\* the loop refinement (geometry.cc:1057-1073)
RefineLoops ==
    /\ pc = "auxiliary"
    /\ lines' = [l \in DOMAIN lines |-> RefineLoop(lines[l])]
    /\ pc' = "refined"
    /\ UNCHANGED <<geomap, segmented_lines, q, routes, cancel_flag, stations, input, opt, ddVars, srvVars>>

\* the simple flags and the end of the constructor (geometry.cc:1075-1113)
FinishLines ==
    /\ pc = "refined"
    /\ geomap' = BuildMap(input.aarc, input.config_json)
    /\ pc' = "built"
    /\ UNCHANGED <<segmented_lines, q, lines, routes, cancel_flag, stations, input, opt, ddVars, srvVars>>

NextLines == LoadLines \/ AddAuxiliaryPoints \/ RefineLoops \/ FinishLines

SpecLines == InitLines /\ [][NextLines]_vars

\* the constructor taken in steps ends in the map BuildMap gives
StepsAgreeWithBuildMap ==
    pc = "built" =>
        \A l \in DOMAIN lines :
            /\ geomap.lines[l].point_ids = lines[l].point_ids
            /\ geomap.lines[l].is_loop = lines[l].is_loop

\* C21: after the builder every line flagged is_loop has
\* point_ids.front() == point_ids.back(), lines that reference missing point
\* ids included
C21_LoopEndsMeet ==
    pc = "built" =>
        \A l \in DOMAIN geomap.lines :
            geomap.lines[l].is_loop =>
                geomap.lines[l].point_ids[1] = geomap.lines[l].point_ids[Len(geomap.lines[l].point_ids)]

\* p is a period of pts: pts[i] = pts[i mod p] for every 0-based index i
IsPeriod(pts, p) ==
    /\ p \in 1..(Len(pts) - 1)
    /\ \A i \in 0..(Len(pts) - 1) : pts[i + 1] = pts[(i % p) + 1]

\* C25: the loop refinement flags a non-loop line exactly when it has a period
\* p < length, and then truncates it to the first p + 1 points for the
\* smallest such p, also when the first point re-occurs before p
C25_RefinementFindsSmallestPeriod ==
    [][(pc = "auxiliary" /\ pc' = "refined") =>
          \A l \in DOMAIN lines :
              ~lines[l].is_loop =>
                  LET pts == lines[l].point_ids
                      periods == {p \in 1..(Len(pts) - 1) : IsPeriod(pts, p)}
                  IN /\ lines'[l].is_loop = (periods # {})
                     /\ periods # {} =>
                           lines'[l].point_ids =
                               SubSeq(pts, 1, (CHOOSE p \in periods : \A r \in periods : p <= r) + 1)
                     /\ periods = {} => lines'[l].point_ids = pts]_vars

\* the Stations a and b are no further apart than d (sizes 1)
WithinDistance(gm, a, b, d) ==
    LET dx == gm.points[a].pos[1] - gm.points[b].pos[1]
        dy == gm.points[a].pos[2] - gm.points[b].pos[2]
    IN dx * dx + dy * dy <= d * d

StationPointsOf(gm) == {p \in DOMAIN gm.points : gm.points[p].type = "Station"}

\* C22: when the config descriptor supplies auto_group_distance, the auto-group
\* step joins two Stations iff they are at most that far apart (sizes 1): two
\* Stations within it share a group, and a grouped Station has another within it
C22_ConfiguredGroupDistance ==
    input.config_json.auto_group_distance > 0 =>
        LET d == input.config_json.auto_group_distance
            p2g == geomap.point_to_group
        IN /\ \A a, b \in StationPointsOf(geomap) :
                 (a # b /\ WithinDistance(geomap, a, b, d)) =>
                     (a \in DOMAIN p2g /\ b \in DOMAIN p2g /\ p2g[a] = p2g[b])
           /\ \A a \in DOMAIN p2g :
                 \E b \in StationPointsOf(geomap) : b # a /\ WithinDistance(geomap, a, b, d)

(***************************************************************************)
(* SpecCross: convert_to_rc on maps whose lines meet: line 1-2-3 crossed   *)
(* by 11-2-12 at point 2, line 1-2-3 met by 3-2-11 along 2-3, and the      *)
(* square loop 1-2-11-13-1 with a segmentation entry                       *)
(***************************************************************************)
CrossShapes ==
    {<<<<1, 2, 3>>, <<11, 2, 12>>>>,
     <<<<1, 2, 3>>, <<3, 2, 11>>>>,
     <<<<1, 2, 11, 13, 1>>>>}

CrossAarcInputs ==
    UNION {{[points |-> [p \in PointsOf(shape) |-> [pos |-> PosOf(p), type |-> ty[p]]],
             lines |-> shape] : ty \in [PointsOf(shape) -> {"Station", "Node"}]}
           : shape \in CrossShapes}

\* two lines: no pair, friends or merged; the loop: a segmentation entry
CrossConfigInputs(a) ==
    {[max_length |-> ml, max_rc_steps |-> 1, merge_consecutive_duplicates |-> TRUE,
      optimize_segmentation |-> FALSE, max_iterations |-> 0,
      friend_lines |-> IF rel = "friend" THEN {<<1, 2>>} ELSE {},
      merged_lines |-> IF rel = "merged" THEN {<<1, 2>>} ELSE {},
      segmented_lines |-> IF Len(a.lines) = 1
                          THEN <<[lines |-> {1}, segment_length |-> 0]>> ELSE <<>>]
     : ml \in 1..MaxCfgLength,
       rel \in IF Len(a.lines) = 1 THEN {"none"} ELSE {"none", "friend", "merged"}}

InitCross ==
    /\ \E a \in CrossAarcInputs : \E c \in CrossConfigInputs(a) :
          /\ input = [aarc |-> a, config_json |-> c]
          /\ geomap = BuildMap(a, c)
    /\ segmented_lines = EmptyMap
    /\ q = <<>>
    /\ lines = EmptyMap
    /\ routes = EmptyMap
    /\ stations = {}
    /\ pc = "add_stations"
    /\ cancel_flag = FALSE
    /\ ddIdle
    /\ srvIdle
    /\ optIdle

NextCross == AddStations \/ Seed \/ BFSStep \/ BFSTruncate \/ Dedup

SpecCross == InitCross /\ [][NextCross]_vars

\* the BFS is about to call next_tracks on the last track of the front entry
AtNextTracks ==
    /\ pc = "bfs"
    /\ q # <<>>
    /\ ~LastTrack(Head(q)).is_end
    /\ ~NextTracksThrows(geomap, LastTrack(Head(q)))

\* (q - p) . (q' - q) >= 0 for three points of the map
TurnAtMost90(gm, p, qq, q2) ==
    /\ {p, qq, q2} \subseteq DOMAIN gm.points
    /\ (gm.points[qq].pos[1] - gm.points[p].pos[1]) * (gm.points[q2].pos[1] - gm.points[qq].pos[1])
       + (gm.points[qq].pos[2] - gm.points[p].pos[2]) * (gm.points[q2].pos[2] - gm.points[qq].pos[2]) >= 0

\* the point a parked track leads to; an end marker leads nowhere
LeadsTo(gm, t) ==
    IF t.is_end THEN MissingPoint ELSE PointAt(gm, t.line_id, get_next_index(t))

\* merged, or friends with a turn of at most 90 degrees
CrossingAllowed(gm, track, qq, t) ==
    \/ <<track.line_id, t.line_id>> \in gm.config.merged_lines
    \/ /\ <<track.line_id, t.line_id>> \in gm.config.friend_lines
       /\ TurnAtMost90(gm, track.point_id, qq, LeadsTo(gm, t))

IsAdmitted(gm, track, t) ==
    \E j \in DOMAIN next_tracks(gm, track) : next_tracks(gm, track)[j] = t

\* C23 as stated: every track of another line parked at the next point is
\* admitted iff the lines are merged, or friends with (q - p).(q' - q) >= 0
C23_CrossingRule ==
    AtNextTracks =>
        LET track == LastTrack(Head(q))
            qq == PointAt(geomap, track.line_id, get_next_index(track))
            parked == PointTracks(geomap, qq)
        IN \A i \in DOMAIN parked :
              parked[i].line_id # track.line_id =>
                  (IsAdmitted(geomap, track, parked[i]) <=> CrossingAllowed(geomap, track, qq, parked[i]))

\* C23 amended: a track of another line parked at the next point that is not
\* an end marker is admitted iff the lines are merged, or friends with
\* (q - p).(q' - q) >= 0; an end marker of another line is never admitted
C23_CrossingRuleExceptEndMarkers ==
    AtNextTracks =>
        LET track == LastTrack(Head(q))
            qq == PointAt(geomap, track.line_id, get_next_index(track))
            parked == PointTracks(geomap, qq)
        IN \A i \in DOMAIN parked :
              parked[i].line_id # track.line_id =>
                  (IsAdmitted(geomap, track, parked[i])
                      <=> (~parked[i].is_end /\ CrossingAllowed(geomap, track, qq, parked[i])))

\* a queued route has turned from line 1 at point 1 into the friend line
\* 11-2-12 at point 2, a right angle
C23_Witness ==
    /\ pc = "bfs"
    /\ input.aarc.lines = <<<<1, 2, 3>>, <<11, 2, 12>>>>
    /\ geomap.config.friend_lines # {}
    /\ \E k \in DOMAIN q :
          /\ Len(q[k].tracks) >= 2
          /\ q[k].tracks[1].line_id = 1
          /\ q[k].tracks[1].point_id = 1
          /\ q[k].tracks[2].line_id = 2
          /\ q[k].tracks[2].point_id = 2

\* the Station points a route passes on tracks i+1 .. j
StationsPassed(gm, tracks, i, j) ==
    {k \in (i + 1)..j : IsStation(gm, tracks[k].point_id)}

\* a queued route comes back to a track it already holds without having
\* passed a Station since: next_tracks depends on the last track alone, so
\* the same extension is open again with the same remaining_count
Pumping(gm, entry) ==
    \E i, j \in DOMAIN entry.tracks :
        /\ i < j
        /\ entry.tracks[i] = entry.tracks[j]
        /\ StationsPassed(gm, entry.tracks, i, j) = {}

\* C24: get_lines terminates on every map, the route cap bounds every route:
\* no route in the BFS queue can be extended around a cycle of the track
\* graph without using up some of its cap
C24_RouteCapBoundsEveryRoute ==
    pc = "bfs" => \A k \in DOMAIN q : ~Pumping(geomap, q[k])

(***************************************************************************)
(* SpecDescent: add_lines on the configs that reach the descent, the       *)
(* optimizer enabled and at least one negative segmentation group, on the  *)
(* maps of one or two lines                                                *)
(***************************************************************************)
InitDescent ==
    /\ InitOpt
    /\ Len(input.aarc.lines) <= 2
    /\ geomap.config.optimize_segmentation
    /\ GroupKeys(geomap) # {}

NextDescent == OptPrepare \/ OptIterate \/ OptGroup \/ OptEndPass \/ OptFinish

SpecDescent == InitDescent /\ [][NextDescent]_vars

\* the descent is between two groups, or between two outer iterations
InDescent == pc \in {"while", "groups"}

\* the trial values the bounds of the descent allow
TrialInRange(gm, v) == v > gm.config.max_rc_steps /\ v < 2 * gm.config.max_length

\* C26: during the descent current_count is the size of the masked enumeration
\* of the current segmentation, the lines of one group hold one value, every
\* commit strictly lowers current_count, and no trial value <= max_rc_steps or
\* >= 2 * max_length is evaluated or committed
C26_DescentInvariants ==
    [][/\ InDescent' =>
            /\ opt'.current_count = get_line_count(geomap', segmented_lines', opt'.mask)
            /\ \A key \in GroupKeys(geomap') : \A l1, l2 \in GroupLines(geomap', key) :
                  segmented_lines'[l1] = segmented_lines'[l2]
            /\ \A v \in opt'.tried : TrialInRange(geomap', v)
       /\ (InDescent /\ segmented_lines' # segmented_lines) =>
            /\ opt'.current_count < opt.current_count
            /\ \A l \in DOMAIN segmented_lines :
                  segmented_lines'[l] # segmented_lines[l] => TrialInRange(geomap, segmented_lines'[l])]_vars

\* the descent has committed a value for a group after skipping trial values
\* on both sides of the range
C26_Witness ==
    /\ pc = "while"
    /\ opt.commits >= 1
    /\ opt.tried # {}
    /\ geomap.config.max_length = MaxCfgLength + 1

(***************************************************************************)
(* SpecMask: add_lines with the optimizer on a chain of four lines, line 3 *)
(* (13-11) meeting line 2 (11-2-12) at 11, line 2 crossing line 1 (1-2-3)  *)
(* at 2, line 4 (3-4) meeting line 1 at 3; any of the pairs (1,2), (3,2),  *)
(* (4,1) listed as friends or as merged, one line in a negative group      *)
(***************************************************************************)
MaskShape == <<<<1, 2, 3>>, <<11, 2, 12>>, <<13, 11>>, <<3, 4>>>>

MaskPairs == {<<1, 2>>, <<3, 2>>, <<4, 1>>}

MaskAarc ==
    [points |-> [p \in PointsOf(MaskShape) |-> [pos |-> PosOf(p), type |-> "Station"]],
     lines |-> MaskShape]

MaskConfigInputs ==
    {[max_length |-> MaxCfgLength + 1, max_rc_steps |-> 1, merge_consecutive_duplicates |-> TRUE,
      optimize_segmentation |-> TRUE, max_iterations |-> 1,
      friend_lines |-> fr, merged_lines |-> mg,
      segmented_lines |-> <<[lines |-> {g}, segment_length |-> 0]>>]
     : fr \in SUBSET MaskPairs, mg \in SUBSET MaskPairs, g \in DOMAIN MaskShape}

InitMask ==
    /\ \E c \in MaskConfigInputs :
          /\ input = [aarc |-> MaskAarc, config_json |-> c]
          /\ geomap = BuildMap(MaskAarc, c)
    /\ segmented_lines = EmptyMap
    /\ q = <<>>
    /\ lines = EmptyMap
    /\ routes = EmptyMap
    /\ stations = {}
    /\ pc = "add_lines"
    /\ cancel_flag = FALSE
    /\ opt = OptInitial
    /\ ddIdle
    /\ srvIdle

SpecMask == InitMask /\ [][NextDescent]_vars

\* the lines of the negative segmentation groups
OptimizedLines(gm) ==
    {l \in DOMAIN gm.config.segmented_lines : gm.config.segmented_lines[l] < 0}

\* (a, b) or (b, a) is a friend pair or a merged pair of the built map
Linked(gm, a, b) ==
    \/ <<a, b>> \in gm.config.friend_lines \cup gm.config.merged_lines
    \/ <<b, a>> \in gm.config.friend_lines \cup gm.config.merged_lines

ClosedUnderLinks(gm, m) ==
    \A a \in m : \A b \in DOMAIN gm.lines : Linked(gm, a, b) => b \in m

\* C27: the lines mask of the optimizer contains every line of every negative
\* group, is closed under friend and merged pairs taken in either direction,
\* and is the least such set
C27_MaskIsClosure ==
    InDescent =>
        /\ OptimizedLines(geomap) \subseteq opt.mask
        /\ ClosedUnderLinks(geomap, opt.mask)
        /\ \A m \in SUBSET opt.mask :
              (OptimizedLines(geomap) \subseteq m /\ ClosedUnderLinks(geomap, m)) => m = opt.mask

\* line 2 alone is in a group, the pairs are listed as (1, 2) and (4, 1): the
\* mask reaches lines 1 and 4 against the listed direction and leaves line 3 out
C27_Witness ==
    /\ InDescent
    /\ OptimizedLines(geomap) = {2}
    /\ input.config_json.friend_lines = {<<1, 2>>}
    /\ input.config_json.merged_lines = {<<4, 1>>}
    /\ opt.mask = {1, 2, 4}

(***************************************************************************)
(* SpecLinks: convert_to_rc on the 2 x 2 and 1 x 3 grids with pointLinks   *)
(* of type Group (link mode Group by default, geometry.h:106), which       *)
(* join_stations applies before the auto-group step                        *)
(***************************************************************************)
MaxLinks == 2

\* the pointLinks loop in Group mode (geometry.cc:1003-1022)
RECURSIVE JoinLinks(_, _, _)
JoinLinks(links, k, p2g) ==
    IF k > Len(links) THEN p2g
    ELSE JoinLinks(links, k + 1, JoinStations(p2g, links[k][1], links[k][2]))

\* Map::Map with pointLinks: the groups of the links, then the auto-group step
BuildMapWithLinks(aarc, config_json) ==
    [BuildMap(aarc, config_json) EXCEPT
        !.point_to_group = AutoGroup(aarc.points, StationPairs(aarc.points), 1,
                                     JoinLinks(aarc.pointLinks, 1, <<>>))]

LinkPairs == {<<1, 3>>, <<3, 1>>, <<2, 4>>, <<4, 2>>, <<3, 2>>, <<1, MissingPoint>>, <<MissingPoint, 4>>}

LinksAarcInputs ==
    {[points |-> g.points, lines |-> g.lines, pointLinks |-> links]
     : g \in UNION {{GridAarc(dim[1], dim[2], step, ty) : ty \in [1..(dim[1] * dim[2]) -> {"Station", "Node"}]}
                    : dim \in {<<2, 2>>, <<1, 3>>}, step \in {10, 30}},
       links \in SeqsUpTo(LinkPairs, MaxLinks)}

LinksConfigInputs(n) ==
    {[max_length |-> 0, max_rc_steps |-> 0, merge_consecutive_duplicates |-> md,
      optimize_segmentation |-> FALSE, max_iterations |-> 0,
      friend_lines |-> IF fr THEN {<<1, n>>} ELSE {},
      merged_lines |-> {}, segmented_lines |-> <<>>]
     : md \in BOOLEAN, fr \in BOOLEAN}

InitLinks ==
    /\ \E a \in LinksAarcInputs : \E c \in LinksConfigInputs(Len(a.lines)) :
          /\ input = [aarc |-> a, config_json |-> c]
          /\ geomap = BuildMapWithLinks(a, c)
    /\ segmented_lines = EmptyMap
    /\ q = <<>>
    /\ lines = EmptyMap
    /\ routes = EmptyMap
    /\ stations = {}
    /\ pc = "add_stations"
    /\ cancel_flag = FALSE
    /\ ddIdle
    /\ srvIdle
    /\ optIdle

NextLinks == AddStations \/ Seed \/ BFSStep \/ Dedup

SpecLinks == InitLinks /\ [][NextLinks]_vars

\* the ids of the station groups of the built map
GroupIds(gm) == {gm.point_to_group[p] : p \in DOMAIN gm.point_to_group}

\* the Station points outside every group
UngroupedStations(gm) ==
    {p \in DOMAIN gm.points : gm.points[p].type = "Station" /\ p \notin DOMAIN gm.point_to_group}

\* C28: in the result of convert_to_rc every station id of an RC line is the
\* id of an emitted station, being the group id of a grouped Station point or
\* the own id of an ungrouped one, every group id is emitted, and no group id
\* is the id of an ungrouped station
C28_LineStationsAreEmitted ==
    pc = "done" =>
        /\ \A k \in DOMAIN lines : \A i \in DOMAIN lines[k].station_ids :
              LET id == lines[k].station_ids[i] IN
              /\ id \in stations
              /\ \/ id \in UngroupedStations(geomap)
                 \/ \E p \in DOMAIN geomap.point_to_group :
                       geomap.points[p].type = "Station" /\ geomap.point_to_group[p] = id
        /\ GroupIds(geomap) \subseteq stations
        /\ GroupIds(geomap) \cap UngroupedStations(geomap) = {}

\* the result has a line through a grouped and an ungrouped station, and the
\* group carries the id of a Node point
C28_Witness ==
    /\ pc = "done"
    /\ \E k \in DOMAIN lines :
          /\ \E i \in DOMAIN lines[k].station_ids : lines[k].station_ids[i] \in UngroupedStations(geomap)
          /\ \E i \in DOMAIN lines[k].station_ids :
                /\ lines[k].station_ids[i] \in GroupIds(geomap)
                /\ lines[k].station_ids[i] \in DOMAIN geomap.points
                /\ geomap.points[lines[k].station_ids[i]].type = "Node"

(***************************************************************************)
(* Further claims on the task server                                       *)
(***************************************************************************)
InQueue(qu, k) == \E i \in DOMAIN qu : qu[i] = k

\* the moves of Task::status the lifecycle allows
StatusMove(from, to) ==
    \/ from = "pending" /\ to = "processing"
    \/ from = "processing" /\ IsTerminal(to)

\* C29: at most one task is Processing, a task becomes Processing only after
\* it left the work queue, and a status only moves Pending -> Processing ->
\* Completed, Failed or Timeout
C29_StatusLifecycle ==
    [][/\ Cardinality({k \in DOMAIN task' : task'[k].status = "processing"}) <= 1
       /\ \A k \in DOMAIN task :
             /\ task'[k].status # task[k].status => StatusMove(task[k].status, task'[k].status)
             /\ (task'[k].status = "processing" /\ task[k].status = "pending") =>
                   (InQueue(enqueued, k) /\ ~InQueue(task_queue, k))]_vars

\* the first task has ended in Timeout and the second is Processing while a
\* converter thread of the first is still running
C29_Witness ==
    /\ Len(enqueued) >= 2
    /\ task[enqueued[1]].status = "timeout"
    /\ conv[enqueued[1]] = "running"
    /\ task[enqueued[2]].status = "processing"

(***************************************************************************)
(* SpecLive: the worker side under fair scheduling.  The worker thread     *)
(* keeps taking steps and a /create handler that has stored its task goes  *)
(* on to push it; nothing is assumed of the converter threads.             *)
(*                                                                         *)
(* The converter thread works on a copy of the Map (main.cc:87).  Map has  *)
(* no copy constructor of its own (geometry.h:120-121), so point_to_group  *)
(* of the copy holds pointers into station_groups of process_task's local  *)
(* map, which is destroyed when process_task returns.  A converter thread  *)
(* detached after the grace wait reads those pointers in add_line          *)
(* (converter.cc:193): the read finds a stale value or garbage and the     *)
(* thread goes on, or it faults and the process ends.                      *)
(***************************************************************************)
WorkerAborted == [pc |-> "aborted", key |-> 0]

\* a detached converter thread faults on a pointer into the destroyed map
ConverterAborts ==
    /\ \E k \in Keys :
          /\ conv[k] = "running"
          /\ k \in DOMAIN task
          /\ task[k].status = "timeout"
          /\ worker.key # k
    /\ worker' = WorkerAborted
    /\ UNCHANGED <<tasks, task, task_queue, conv, get, now, term_at, extent, enqueued, convVars, ddVars, opt>>

\* the steps of worker_thread_func and process_task (main.cc:78-158)
WorkerThread ==
    \/ WorkerPop \/ SetProcessing \/ BuildOk \/ BuildThrows \/ SpawnConverter
    \/ FutureReady \/ TimeoutStoreCancel \/ GraceWait
    \/ WriteTimeoutStatus \/ WriteTimeoutMessage \/ WriteTimeoutCompletedAt
    \/ WriteCompletedStatus \/ WriteResult \/ WriteFailedStatus \/ WriteErrorMessage
    \/ WriteCompletedAt \/ CatchStatus \/ CatchMessage \/ CatchCompletedAt

\* no thread of an ended process takes a step
NextLive ==
    \/ worker # WorkerAborted /\ NextWorker
    \/ worker # WorkerAborted /\ ConverterAborts

SpecLive ==
    /\ InitServer
    /\ [][NextLive]_vars
    /\ WF_vars(worker # WorkerAborted /\ WorkerThread)
    /\ WF_vars(worker # WorkerAborted /\ CreatePush)

====
